---- MODULE Spec2Model ----
(***************************************************************************)
(* Model of the hypo relay backend: the session registry                   *)
(* (services/session_manager.rs) and the per-connection runtime and router *)
(* (handlers/websocket.rs).                                                *)
(*                                                                         *)
(* A connection c is one run of websocket_handler: it registers its        *)
(* device id (minting a token, then inserting under the write lock) and    *)
(* spawns a writer task draining the outbound channel and a reader task    *)
(* routing inbound frames.  The channel created by connection c is named   *)
(* by c itself.                                                            *)
(***************************************************************************)
EXTENDS Integers, Sequences, FiniteSets, TLC

\* ------------------------------------------------------------------ bounds
MaxConn == 3        \* connections (register calls) in one run
MaxMsg  == 1        \* inbound frames read by all readers in one run
MaxClose == 1       \* connections the client ends (Close frame or transport close) in one run
MaxSeqMsg == 3      \* inbound frames in a run of two connections that stay open
MaxCtlMsg == 2      \* inbound frames in a run of two connections sending control envelopes
MaxWinMsg == 2      \* inbound frames in a run of two connections one of which closes
MaxClaim == 3       \* claim requests one responder sends for the pairing code

Conns == 1..MaxConn

\* ------------------------------------------------------------------ values
\* X-Device-Id header values a client may present.  Device ids are interchangeable
\* names, so the k-th connection presents one of the first k of them.
RawDeviceIds == {"a", "A", "b", "c"}
HeaderIds(c) == IF c = 1 THEN {"a", "A"} ELSE IF c = 2 THEN {"a", "b"} ELSE {"a", "b", "c"}
\* values of the payload's "target" string
TargetIds == {"A", "b", "c"}
NoTarget == "<none>"
NoDevice == "<nodev>"
NoToken == -1

\* (mutant) the id is used as written
to_lowercase_AsWritten(s) == s

\* str::to_lowercase
to_lowercase(s) == CASE s = "A" -> "a" [] s = "B" -> "b" [] s = "C" -> "c" [] OTHER -> s

Devices == {to_lowercase(s) : s \in RawDeviceIds}

\* ------------------------------------------------------------------ bytes and base64
\* A byte is a number 0..255.  In the texts of the model a character is one
\* byte below 128 or two bytes, a lead 194..223 and a continuation 128..191;
\* 255 is a byte no UTF-8 text contains.
Utf8Valid(bytes) ==
    \A i \in DOMAIN bytes :
        \/ bytes[i] < 128
        \/ bytes[i] \in 194..223 /\ i < Len(bytes) /\ bytes[i + 1] \in 128..191
        \/ bytes[i] \in 128..191 /\ i > 1 /\ bytes[i - 1] \in 194..223

\* (mutant) the length is written least significant byte first
ToBeBytes_LittleEndian(n) ==
    <<n % 256, (n \div 256) % 256, (n \div 65536) % 256, (n \div 16777216) % 256>>

\* u32::to_be_bytes and u32::from_be_bytes
ToBeBytes(n) == <<(n \div 16777216) % 256, (n \div 65536) % 256, (n \div 256) % 256, n % 256>>
FromBeBytes(b) == b[1] * 16777216 + b[2] * 65536 + b[3] * 256 + b[4]

\* (mutant) the length prefix counts the prefix too
encode_binary_frame_CountPrefix(json_bytes) == ToBeBytes(Len(json_bytes) + 4) \o json_bytes

\* encode_binary_frame: 4-byte big-endian length, then the bytes of the text
encode_binary_frame(json_bytes) == ToBeBytes(Len(json_bytes)) \o json_bytes

DecodeErr(e) == [ok |-> FALSE, err |-> e, json |-> <<>>]
DecodeOk(t) == [ok |-> TRUE, err |-> "", json |-> t]

\* decode_binary_frame: the strict decoder
decode_binary_frame(data) ==
    IF Len(data) < 4 THEN DecodeErr("frame too short")
    ELSE LET length == FromBeBytes(data)
         IN IF Len(data) < 4 + length THEN DecodeErr("frame truncated")
            ELSE IF Len(data) # 4 + length THEN DecodeErr("frame has trailing bytes")
            ELSE IF ~Utf8Valid(SubSeq(data, 5, 4 + length))
                   THEN DecodeErr("invalid UTF-8 in JSON payload")
            ELSE DecodeOk(SubSeq(data, 5, 4 + length))

\* Base64 text over three characters: "A" (the sextet 0), "=" (padding) and "!"
\* (outside the alphabet).
Rep(ch, n) == [i \in 1..n |-> ch]
Zeros(n) == [i \in 1..n |-> 0]
B64Err == [ok |-> FALSE, bytes |-> <<>>]
B64Ok(bytes) == [ok |-> TRUE, bytes |-> bytes]

\* trailing "=" characters of s
PadCount(s) ==
    IF Len(s) >= 2 /\ s[Len(s)] = "=" /\ s[Len(s) - 1] = "=" THEN 2
    ELSE IF Len(s) >= 1 /\ s[Len(s)] = "=" THEN 1 ELSE 0

\* BASE64 (STANDARD): canonical padding required
Base64Standard(s) ==
    LET p == PadCount(s)
        n == Len(s) - p
    IN IF \E i \in 1..n : s[i] # "A" THEN B64Err
       ELSE IF Len(s) % 4 # 0 THEN B64Err
       ELSE IF p > 0 /\ n % 4 # 4 - p THEN B64Err
       ELSE B64Ok(Zeros((n * 3) \div 4))

\* BASE64_NO_PAD (STANDARD_NO_PAD): no padding allowed
Base64NoPad(s) ==
    IF \E i \in DOMAIN s : s[i] # "A" THEN B64Err
    ELSE IF Len(s) % 4 = 1 THEN B64Err
    ELSE B64Ok(Zeros((Len(s) * 3) \div 4))

\* decode_base64_with_fallback: BASE64, or else BASE64_NO_PAD
decode_base64_with_fallback(encoded) ==
    IF Base64Standard(encoded).ok THEN Base64Standard(encoded) ELSE Base64NoPad(encoded)

\* ------------------------------------------------------------------ JSON values
\* a field of a JSON object: absent, a non-string value, or a string
JAbsent == [kind |-> "absent", s |-> <<>>]
JNumber == [kind |-> "number", s |-> <<>>]
JString(s) == [kind |-> "string", s |-> s]
\* Value::as_str
IsStr(v) == v.kind = "string"

\* ------------------------------------------------------------------ payloads
\* The fields of a clipboard payload the relay looks at.  encryption is "absent",
\* "object" or "number" (present but not an object); nonce and tag are the
\* fields of the encryption object.
Payload(encryption, nonce, tag, ciphertext, data) ==
    [encryption |-> encryption, nonce |-> nonce, tag |-> tag,
     ciphertext |-> ciphertext, data |-> data]

\* payload.get("ciphertext").or_else(|| payload.get("data"))
DataField(payload) ==
    IF payload.ciphertext.kind # "absent" THEN payload.ciphertext ELSE payload.data

\* (mutant) a nonce with an empty tag is taken for plaintext
IsPlaintext_Either(nonce, tag) == nonce.s = <<>> \/ tag.s = <<>>

\* nonce.is_empty() && tag.is_empty()
IsPlaintext(nonce, tag) == nonce.s = <<>> /\ tag.s = <<>>

\* tag_decoded.len() == 16
TagLengthOk(tag_decoded) == Len(tag_decoded) = 16

\* validate_encryption_block: "Ok" or the error
validate_encryption_block(payload) ==
    IF payload.encryption = "absent" THEN "missing encryption block"
    ELSE IF payload.encryption # "object" \/ ~IsStr(payload.nonce) THEN "missing nonce"
    ELSE IF ~IsStr(payload.tag) THEN "missing tag"
    ELSE IF IsPlaintext(payload.nonce, payload.tag)
      THEN IF ~IsStr(DataField(payload)) THEN "missing data/ciphertext field"
           ELSE IF ~decode_base64_with_fallback(DataField(payload).s).ok
                  THEN "invalid data encoding"
           ELSE "Ok"
    ELSE IF ~decode_base64_with_fallback(payload.nonce.s).ok THEN "invalid nonce encoding"
    ELSE IF Len(decode_base64_with_fallback(payload.nonce.s).bytes) # 12
           THEN "nonce must be 12 bytes"
    ELSE IF ~decode_base64_with_fallback(payload.tag.s).ok THEN "invalid tag encoding"
    ELSE IF ~TagLengthOk(decode_base64_with_fallback(payload.tag.s).bytes)
           THEN "tag must be 16 bytes"
    ELSE IF ~IsStr(DataField(payload)) THEN "missing data/ciphertext field"
    ELSE IF ~decode_base64_with_fallback(DataField(payload).s).ok THEN "invalid data encoding"
    ELSE "Ok"

\* sample strings: base64 of n zero bytes, padded and unpadded
B64Padded(n) ==
    Rep("A", (n \div 3) * 4) \o
      (IF n % 3 = 1 THEN <<"A", "A", "=", "=">>
       ELSE IF n % 3 = 2 THEN <<"A", "A", "A", "=">> ELSE <<>>)
B64Unpadded(n) ==
    Rep("A", (n \div 3) * 4) \o
      (IF n % 3 = 1 THEN <<"A", "A">> ELSE IF n % 3 = 2 THEN <<"A", "A", "A">> ELSE <<>>)

\* the values a nonce or tag field takes, and the values a data field takes
NonceTagValues ==
    {JAbsent, JNumber, JString(<<>>), JString(B64Padded(12)), JString(B64Padded(11)),
     JString(B64Padded(16)), JString(B64Unpadded(16)), JString(<<"!", "!", "!", "!">>)}
DataValues == {JAbsent, JNumber, JString(B64Padded(3)), JString(<<"A">>)}

\* the payloads validate_encryption_block is applied to
Payloads ==
    {Payload("absent", JAbsent, JAbsent, JAbsent, JString(B64Padded(3))),
     Payload("number", JAbsent, JAbsent, JAbsent, JString(B64Padded(3)))}
    \cup {Payload("object", n, t, c, d) :
             n \in NonceTagValues, t \in NonceTagValues, c \in DataValues, d \in DataValues}

\* ------------------------------------------------------------------ envelopes
\* The JSON text of an envelope is four bytes: its type (1 clipboard, 2 control,
\* 3 error), its id, its payload's target and the rest of its payload, the last
\* two as indexes into the tables below.  Any other text is not a ClipboardMessage.
TargetStrings == <<"A", "b", "c", "a", "B">>
TargetCodeOf(t) ==
    IF \E i \in DOMAIN TargetStrings : TargetStrings[i] = t
      THEN CHOOSE i \in DOMAIN TargetStrings : TargetStrings[i] = t ELSE 0
\* the payload's target field may also hold a value that is not a string: a
\* number, null, an object, an array, each given here by its JSON text; their
\* codes follow those of TargetStrings, and code 0 is a payload without the field
NonStringTargets == <<"7", "null", "{}", "[]">>
NonStringCodes == {Len(TargetStrings) + i : i \in DOMAIN NonStringTargets}
\* payload.get("target")
TargetField(k) ==
    IF k \in DOMAIN TargetStrings THEN [kind |-> "string", text |-> TargetStrings[k]]
    ELSE IF k \in NonStringCodes
      THEN [kind |-> "other", text |-> NonStringTargets[k - Len(TargetStrings)]]
    ELSE [kind |-> "absent", text |-> ""]
\* (mutant) any value present is rendered to text and taken as the target
TargetOfCode_Rendered(k) ==
    IF TargetField(k).kind = "absent" THEN NoTarget ELSE TargetField(k).text
\* payload.get("target").and_then(Value::as_str)
TargetOfCode(k) == IF TargetField(k).kind = "string" THEN TargetField(k).text ELSE NoTarget

\* clipboard payloads: encrypted and valid; without encryption block; plaintext
\* and valid; nonce without tag
ClipboardPayloads ==
    <<Payload("object", JString(B64Padded(12)), JString(B64Unpadded(16)),
              JString(B64Padded(3)), JAbsent),
      Payload("absent", JAbsent, JAbsent, JString(B64Padded(3)), JAbsent),
      Payload("object", JString(<<>>), JString(<<>>), JAbsent, JString(B64Unpadded(2))),
      Payload("object", JString(B64Padded(12)), JString(<<>>), JString(B64Padded(3)), JAbsent)>>

\* control payloads: action, symmetric_key, device_ids, and the field _device_id
\* (here device_id), absent unless a payload is made to name a device
ControlPayload(action, symmetric_key, device_ids) ==
    [action |-> action, symmetric_key |-> symmetric_key, device_ids |-> device_ids,
     device_id |-> JAbsent]
Naming(p, v) == [p EXCEPT !.device_id = v]
NoDeviceIds == <<"<absent>">>
ControlPayloads ==
    <<ControlPayload(JString("register_key"), JString(B64Padded(32)), NoDeviceIds),
      ControlPayload(JString("register_key"), JString(B64Padded(31)), NoDeviceIds),
      ControlPayload(JString("register_key"), JString(B64Padded(33)), NoDeviceIds),
      ControlPayload(JString("register_key"), JString(<<>>), NoDeviceIds),
      ControlPayload(JString("register_key"), JString(B64Unpadded(32)), NoDeviceIds),
      ControlPayload(JString("register_key"), JString(<<"!", "!", "!", "!">>), NoDeviceIds),
      ControlPayload(JString("register_key"), JAbsent, NoDeviceIds),
      ControlPayload(JString("register_key"), JNumber, NoDeviceIds),
      ControlPayload(JString("deregister_key"), JAbsent, NoDeviceIds),
      ControlPayload(JString("query_connected_peers"), JAbsent, NoDeviceIds),
      ControlPayload(JString("noop"), JAbsent, NoDeviceIds),
      ControlPayload(JAbsent, JString(B64Padded(32)), NoDeviceIds)>>

\* the device id lists a peer query supplies, and the query payloads carrying
\* them; their payload codes follow those of ControlPayloads
PeerLists == <<(<<"a">>), (<<"A">>), (<<"a", "b", "ghost">>), (<<"b", "c">>), (<<>>), (<<"">>)>>
QueryPayloads ==
    [i \in DOMAIN PeerLists |->
        ControlPayload(JString("query_connected_peers"), JAbsent, PeerLists[i])]

EnvelopeText(type_code, id, target, payload_code) ==
    <<type_code, id, TargetCodeOf(target), payload_code>>

\* serde_json::from_str::<ClipboardMessage>
NotAnEnvelope == [ok |-> FALSE, msg_type |-> "none", id |-> 0, target |-> NoTarget, payload |-> 0]
FromStr(text) ==
    IF Len(text) = 4 /\ text[1] \in {1, 2}
      THEN [ok |-> TRUE, msg_type |-> IF text[1] = 1 THEN "clipboard" ELSE "control",
            id |-> text[2], target |-> TargetOfCode(text[3]), payload |-> text[4]]
      ELSE NotAnEnvelope

ClipboardPayloadOf(k) ==
    IF k \in DOMAIN ClipboardPayloads THEN ClipboardPayloads[k] ELSE ClipboardPayloads[2]
ControlPayloadOf(k) ==
    IF k \in DOMAIN ControlPayloads THEN ControlPayloads[k]
    ELSE IF k - Len(ControlPayloads) \in DOMAIN QueryPayloads
      THEN QueryPayloads[k - Len(ControlPayloads)]
    ELSE ControlPayload(JAbsent, JAbsent, NoDeviceIds)

\* serde_json::from_value::<ControlMessagePayload>: action is a string, and
\* symmetric_key and _device_id are strings if present
ControlParses(p) ==
    IsStr(p.action) /\ p.symmetric_key.kind # "number" /\ p.device_id.kind # "number"

NoFrame == [type |-> "none", id |-> 0, target |-> NoTarget, valid |-> FALSE,
            code |-> "", original_message_id |-> 0, target_device_id |-> NoDevice,
            connected_devices |-> {}, action |-> "", bytes |-> <<>>]

\* a frame to forward: the envelope it carries and its bytes
Forward(parsed, bytes) ==
    [type |-> "clipboard", id |-> parsed.id, target |-> parsed.target, valid |-> TRUE,
     code |-> "", original_message_id |-> 0, target_device_id |-> NoDevice,
     connected_devices |-> {}, action |-> "", bytes |-> bytes]

\* an inbound clipboard envelope in its frame
ClipboardFrame(id, target, valid) ==
    [type |-> "clipboard", id |-> id, target |-> target, valid |-> valid,
     code |-> "", original_message_id |-> 0, target_device_id |-> NoDevice,
     connected_devices |-> {}, action |-> "",
     bytes |-> encode_binary_frame(EnvelopeText(1, id, target, IF valid THEN 1 ELSE 2))]

\* (mutant) the error envelope does not echo the offending envelope's id
ErrorFrame_NoOriginalId(id, target, registered_devices) ==
    [type |-> "error", id |-> id, target |-> NoTarget, valid |-> TRUE,
     code |-> "device_not_connected", original_message_id |-> 0,
     target_device_id |-> target, connected_devices |-> registered_devices,
     action |-> "", bytes |-> encode_binary_frame(EnvelopeText(3, id, target, 0))]

\* the error envelope the router synthesizes for an offline target
ErrorFrame(id, target, registered_devices) ==
    [type |-> "error", id |-> id, target |-> NoTarget, valid |-> TRUE,
     code |-> "device_not_connected", original_message_id |-> id,
     target_device_id |-> target, connected_devices |-> registered_devices,
     action |-> "", bytes |-> encode_binary_frame(EnvelopeText(3, id, target, 0))]

\* the response to query_connected_peers
ControlResponseFrame(original_message_id, connected_devices) ==
    [type |-> "control", id |-> 0, target |-> NoTarget, valid |-> TRUE,
     code |-> "", original_message_id |-> original_message_id,
     target_device_id |-> NoDevice, connected_devices |-> connected_devices,
     action |-> "query_connected_peers",
     bytes |-> encode_binary_frame(EnvelopeText(2, 0, NoTarget, 0))]

VARIABLES
    next_token,     \* SessionManager.next_token (AtomicU64)
    sessions,       \* SessionManager.inner: the set of (key, SessionEntry) pairs of the map
    hpc,            \* websocket_handler / register position of each connection
    device_id,      \* the connection's lowercased device id
    session_token,  \* the token its register call minted
    tx_live,        \* the channel's UnboundedSender still exists
    rx_live,        \* the channel's UnboundedReceiver still exists
    queue,          \* frames buffered in the channel
    enqueued,       \* every frame ever accepted by the channel, in order
    open,           \* the connection's transport (actix_ws Session) is still open
    out,            \* frames written on the connection's transport, in order
    rpc,            \* reader task position
    rframe,         \* the frame the reader is routing
    rtarget,        \* the lowercased target of that frame
    rremoved,       \* the reader's `removed` (result of its unregister_with_token)
    wpc,            \* writer task position
    wremoved,       \* the writer's `removed`
    last_seen,      \* last_seen of the entry holding this channel
    nmsg,           \* inbound frames read so far (the relay's clock)
    not_connected,  \* the frames send_binary rejected with DeviceNotConnected
    ret,            \* last direct call to the SessionManager API and its result
    device_keys,    \* DeviceKeyStore.inner: the set of (device id, key) pairs of the map
    origin,         \* the inbound messages routed so far, each with its envelope id and the connection that read it
    rcalls,         \* unregister_with_token calls made by the reader task
    wcalls,         \* unregister_with_token calls made by the writer task
    arg,            \* the argument of a function applied on its own
    redis,          \* the pairing entry Redis holds under pairing:code:<code>
    claim           \* claim_pairing_code calls: position and result of each

vars == <<next_token, sessions, hpc, device_id, session_token, tx_live, rx_live,
          queue, enqueued, open, out, rpc, rframe, rtarget, rremoved,
          wpc, wremoved, last_seen, nmsg, not_connected, ret,
          device_keys, origin, rcalls, wcalls, arg, redis, claim>>

conn_vars == <<hpc, device_id, session_token>>
chan_vars == <<tx_live, rx_live, queue, enqueued>>
reader_vars == <<rpc, rframe, rtarget, rremoved>>
writer_vars == <<wpc, wremoved>>
rest_vars == <<device_keys, origin, rcalls, wcalls, arg, redis, claim>>

NoCall == [op |-> "none", device_id |-> NoDevice, value |-> "none"]
\* an inbound WebSocket message: Message::Binary(bytes) or Message::Text(text)
Message(ws, bytes) == [ws |-> ws, bytes |-> bytes]
NoArg == <<"none">>

\* ------------------------------------------------------------------ HashMap<String, SessionEntry>
Keys(S) == {e.device_id : e \in S}
ContainsKey(S, d) == \E e \in S : e.device_id = d
Get(S, d) == CHOOSE e \in S : e.device_id = d

\* HashMap::insert: the entry replaces the one under the same key
HashMapInsert(S, e) == {x \in S : x.device_id # e.device_id} \cup {e}
\* (mutant) the entry stays in the map
HashMapRemove_Keep(S, d) == S

\* HashMap::remove
HashMapRemove(S, d) == {x \in S : x.device_id # d}

\* the SessionEntry values a map operation dropped: their senders are gone
Dropped(S, T) == {e.sender : e \in S} \ {e.sender : e \in T}

\* a map pair: the key and SessionEntry { sender, token }
SessionEntry(d, tx, token) == [device_id |-> d, sender |-> tx, token |-> token]

\* Redis before the pairing code is allocated, and a claim request not yet served
Responders == {"r1", "r2"}
NoPairingEntry == [present |-> FALSE, responder_device_id |-> NoDevice, expired |-> FALSE]
NewClaim == [pc |-> "new", result |-> "none", attempt |-> 1]

\* the relay after construction: no session, no key, no connection
RelayInit ==
    /\ next_token = 0
    /\ sessions = {}
    /\ hpc = [c \in Conns |-> "new"]
    /\ device_id = [c \in Conns |-> NoDevice]
    /\ session_token = [c \in Conns |-> NoToken]
    /\ tx_live = [c \in Conns |-> FALSE]
    /\ rx_live = [c \in Conns |-> FALSE]
    /\ queue = [c \in Conns |-> <<>>]
    /\ enqueued = [c \in Conns |-> <<>>]
    /\ open = [c \in Conns |-> FALSE]
    /\ out = [c \in Conns |-> <<>>]
    /\ rpc = [c \in Conns |-> "none"]
    /\ rframe = [c \in Conns |-> NoFrame]
    /\ rtarget = [c \in Conns |-> NoTarget]
    /\ rremoved = [c \in Conns |-> "none"]
    /\ wpc = [c \in Conns |-> "none"]
    /\ wremoved = [c \in Conns |-> "none"]
    /\ last_seen = [c \in Conns |-> 0]
    /\ nmsg = 0
    /\ not_connected = {}
    /\ ret = NoCall
    /\ device_keys = {}
    /\ origin = {}
    /\ rcalls = [c \in Conns |-> 0]
    /\ wcalls = [c \in Conns |-> 0]
    /\ redis = NoPairingEntry
    /\ claim = [r \in Responders |-> NewClaim]

Init == RelayInit /\ arg = NoArg

\* ------------------------------------------------------------------ SessionManager
\* (mutant) the counter is read and left as it was
FetchAdd_NoIncrement(n) == n

\* next_token.fetch_add(1, Relaxed): the value returned and the value left
FetchAddResult(n) == n
FetchAdd(n) == n + 1

\* register, under the write lock: sessions.insert(device_id, SessionEntry { sender, token })
RegisterInsert(S, d, tx, token) == HashMapInsert(S, SessionEntry(d, tx, token))

\* (mutant) the token guard forgotten: any entry under the device id matches
ShouldRemove_AnyToken(S, d, token) == \E e \in S : e.device_id = d

\* unregister_with_token: matches!(sessions.get(device_id), Some(entry) if entry.token == token)
ShouldRemove(S, d, token) == \E e \in S : e.device_id = d /\ e.token = token

\* (mutant) the entry is removed whatever should_remove says
UnregisterWithToken_AlwaysRemove(S, d, token) == HashMapRemove(S, d)

UnregisterWithToken(S, d, token) ==
    IF ShouldRemove(S, d, token) THEN HashMapRemove(S, d) ELSE S

\* (mutant) the frame is put at the head of the channel
ChannelSend_AtHead(q, cs, f) ==
    [c \in Conns |-> IF c \in cs /\ rx_live[c] THEN <<f>> \o q[c] ELSE q[c]]

\* (mutant) one refused send makes the whole call give up
ChannelSend_AllOrNothing(q, cs, f) ==
    [c \in Conns |-> IF c \in cs /\ (\A x \in cs : rx_live[x]) THEN Append(q[c], f) ELSE q[c]]

\* UnboundedSender::send on the channels cs: a channel whose receiver is gone refuses
ChannelSend(q, cs, f) ==
    [c \in Conns |-> IF c \in cs /\ rx_live[c] THEN Append(q[c], f) ELSE q[c]]

\* (mutant) a missing entry is not reported
SendBinaryResult_IgnoreMissing(S, d) == "Ok"

\* (mutant) a refused send is reported like a missing entry
SendBinaryResult_DeadIsMissing(S, d) ==
    IF ~ContainsKey(S, d) \/ ~rx_live[Get(S, d).sender] THEN "DeviceNotConnected" ELSE "Ok"

\* send_binary: the result, and the channel the frame goes to
SendBinaryResult(S, d) ==
    IF ~ContainsKey(S, d) THEN "DeviceNotConnected"
    ELSE IF rx_live[Get(S, d).sender] THEN "Ok" ELSE "SendError"

\* (mutant) the frame goes to every channel ever registered under the device id
SendBinaryTargets_AllIncarnations(S, d) ==
    {c \in Conns : hpc[c] = "registered" /\ device_id[c] = d}

\* (mutant) the frame goes to every entry
SendBinaryTargets_Everyone(S, d) == {e.sender : e \in S}

SendBinaryTargets(S, d) == {e.sender : e \in {x \in S : x.device_id = d}}

\* (mutant) the sender is not skipped
BroadcastTargets_IncludeSender(S, sender_id) == {e.sender : e \in S}

\* broadcast_except_binary: every entry whose key is not sender_id
BroadcastTargets(S, sender_id) == {e.sender : e \in {x \in S : x.device_id # sender_id}}

\* get_connected_devices
GetConnectedDevices(S) == Keys(S)

\* touch: last_seen of the entry under device_id becomes now; nothing if absent
Touch(ls, S, d, now) ==
    [c \in Conns |-> IF \E e \in S : e.device_id = d /\ e.sender = c THEN now ELSE ls[c]]

\* (mutant) a replaced or removed entry's sender is kept alive
DropSenders_Leak(tx, S, T) == tx

\* the senders dropped with their entries close their channels
DropSenders(tx, S, T) == [c \in Conns |-> tx[c] /\ c \notin Dropped(S, T)]

\* get_connected_devices_info: device id and last_seen of every entry
GetConnectedDevicesInfo(S, ls) ==
    {[device_id |-> e.device_id, last_seen |-> ls[e.sender]] : e \in S}

\* ------------------------------------------------------------------ DeviceKeyStore
KeyEntry(d, key) == [device_id |-> d, key |-> key]
\* (mutant) a key that is not 32 bytes long is refused
KeyStoreStore_Only32(K, d, key) ==
    IF Len(key) = 32 THEN {x \in K : x.device_id # d} \cup {KeyEntry(d, key)} ELSE K

\* store: inner.insert(device_id, key)
KeyStoreStore(K, d, key) == {x \in K : x.device_id # d} \cup {KeyEntry(d, key)}
\* get: inner.get(device_id).cloned()
NoKey == [some |-> FALSE, key |-> <<>>]
SomeKey(key) == [some |-> TRUE, key |-> key]
KeyStoreGet(K, d) ==
    IF \E x \in K : x.device_id = d
      THEN SomeKey((CHOOSE x \in K : x.device_id = d).key) ELSE NoKey
\* is_registered: inner.contains_key(device_id)
KeyStoreIsRegistered(K, d) == \E x \in K : x.device_id = d
\* remove: inner.remove(device_id)
KeyStoreRemove(K, d) == {x \in K : x.device_id # d}

\* ------------------------------------------------------------------ handle_control_message
\* (mutant) a decoded key of any length is stored
KeyLengthOk_Any(key) == TRUE

\* Ok(key) if key.len() == 32
KeyLengthOk(key) == Len(key) = 32

\* (mutant) the key operation acts on the device the payload names
ControlKeys_NamedDevice(K, sender_id, p) ==
    LET d == IF IsStr(p.device_id) THEN p.device_id.s[1] ELSE sender_id
    IN IF ~ControlParses(p) THEN K
       ELSE IF p.action.s = "register_key"
         THEN IF ~IsStr(p.symmetric_key) THEN K
              ELSE IF Base64Standard(p.symmetric_key.s).ok
                      /\ KeyLengthOk(Base64Standard(p.symmetric_key.s).bytes)
                     THEN KeyStoreStore(K, d, Base64Standard(p.symmetric_key.s).bytes)
              ELSE K
       ELSE IF p.action.s = "deregister_key" THEN KeyStoreRemove(K, d)
       ELSE K

\* the key store after the control payload p from sender_id
ControlKeys(K, sender_id, p) ==
    IF ~ControlParses(p) THEN K
    ELSE IF p.action.s = "register_key"
      THEN IF ~IsStr(p.symmetric_key) THEN K
           ELSE IF Base64Standard(p.symmetric_key.s).ok
                   /\ KeyLengthOk(Base64Standard(p.symmetric_key.s).bytes)
                  THEN KeyStoreStore(K, sender_id, Base64Standard(p.symmetric_key.s).bytes)
           ELSE K
    ELSE IF p.action.s = "deregister_key" THEN KeyStoreRemove(K, sender_id)
    ELSE K

\* (mutant) the requested list is ignored
FilterPeers_Unfiltered(infos, device_ids) == infos

\* query_connected_peers: the privacy filter on the connected devices
FilterPeers(infos, device_ids) ==
    IF device_ids = NoDeviceIds THEN infos
    ELSE {i \in infos : \E k \in DOMAIN device_ids : device_ids[k] = i.device_id}

IsQuery(p) == ControlParses(p) /\ p.action.s = "query_connected_peers"

\* ------------------------------------------------------------------ inbound messages
\* the envelope texts a client sends as its message number id
ClipboardTexts(id) ==
    {EnvelopeText(1, id, t, k) : t \in TargetIds \cup {NoTarget}, k \in {1, 2}}
ControlTargets == {NoTarget, "b"}
ControlTexts(id) ==
    {EnvelopeText(2, id, t, k) : t \in ControlTargets, k \in DOMAIN ControlPayloads}
BadTexts(id) == {<<0, id, 0, 0>>}
\* frames decode_binary_frame refuses: too short, truncated, trailing bytes, not UTF-8
BadFrames(id) ==
    {<<0, 0, id>>,
     ToBeBytes(5) \o EnvelopeText(1, id, NoTarget, 1),
     ToBeBytes(3) \o EnvelopeText(1, id, NoTarget, 1),
     ToBeBytes(4) \o <<1, id, 0, 255>>}
MessagesOf(texts, frames) ==
    {Message("binary", encode_binary_frame(t)) : t \in texts}
    \cup {Message("text", t) : t \in texts}
    \cup {Message("binary", f) : f \in frames}
InboundMessagesOf(id) ==
    MessagesOf(ClipboardTexts(id) \cup ControlTexts(id) \cup BadTexts(id), BadFrames(id))
\* the same, tabulated
InboundTable == [id \in 1..(MaxMsg + MaxSeqMsg + MaxCtlMsg) |-> InboundMessagesOf(id)]
InboundMessages(id) == InboundTable[id]

\* ------------------------------------------------------------------ websocket_handler
\* Admission up to the token: headers present, id lowercased, upgrade done,
\* register has created the channel and minted the token and now waits for the
\* write lock.
Connect(c, raw) ==
    /\ hpc[c] = "new"
    /\ \A b \in Conns : b < c => hpc[b] # "new"
    /\ hpc' = [hpc EXCEPT ![c] = "minted"]
    /\ device_id' = [device_id EXCEPT ![c] = to_lowercase(raw)]
    /\ session_token' = [session_token EXCEPT ![c] = FetchAddResult(next_token)]
    /\ next_token' = FetchAdd(next_token)
    /\ tx_live' = [tx_live EXCEPT ![c] = TRUE]
    /\ rx_live' = [rx_live EXCEPT ![c] = TRUE]
    /\ open' = [open EXCEPT ![c] = TRUE]
    /\ UNCHANGED <<sessions, queue, enqueued, out, reader_vars, writer_vars,
                   last_seen, nmsg, not_connected, ret>>
    /\ UNCHANGED rest_vars

\* (mutant) the new session inherits what is queued for the one it replaces
Register_TransferQueue(c) ==
    /\ hpc[c] = "minted"
    /\ sessions' = RegisterInsert(sessions, device_id[c], c, session_token[c])
    /\ tx_live' = DropSenders(tx_live, sessions, sessions')
    /\ last_seen' = [last_seen EXCEPT ![c] = nmsg]
    /\ hpc' = [hpc EXCEPT ![c] = "registered"]
    /\ wpc' = [wpc EXCEPT ![c] = "recv"]
    /\ rpc' = [rpc EXCEPT ![c] = "recv"]
    /\ LET old == IF ContainsKey(sessions, device_id[c])
                    THEN queue[Get(sessions, device_id[c]).sender] ELSE <<>>
       IN /\ queue' = [queue EXCEPT ![c] = old]
          /\ enqueued' = [enqueued EXCEPT ![c] = old]
    /\ UNCHANGED <<next_token, device_id, session_token, rx_live,
                   open, out, rframe, rtarget, rremoved, wremoved, nmsg,
                   not_connected, ret>>
    /\ UNCHANGED rest_vars

\* register under the write lock, then the two tasks are spawned
Register(c) ==
    /\ hpc[c] = "minted"
    /\ sessions' = RegisterInsert(sessions, device_id[c], c, session_token[c])
    /\ tx_live' = DropSenders(tx_live, sessions, sessions')
    /\ last_seen' = [last_seen EXCEPT ![c] = nmsg]
    /\ hpc' = [hpc EXCEPT ![c] = "registered"]
    /\ wpc' = [wpc EXCEPT ![c] = "recv"]
    /\ rpc' = [rpc EXCEPT ![c] = "recv"]
    /\ UNCHANGED <<next_token, device_id, session_token, rx_live, queue, enqueued,
                   open, out, rframe, rtarget, rremoved, wremoved, nmsg,
                   not_connected, ret>>
    /\ UNCHANGED rest_vars

\* the connections the client has ended so far, and whether it may end c
Ended == {c \in Conns : hpc[c] = "registered" /\ (~open[c] \/ rpc[c] \in {"unreg", "done"})}
MayEnd(c) == c \in Ended \/ Cardinality(Ended) < MaxClose

\* the client (or the network) ends the connection
ClientClose(c) ==
    /\ open[c]
    /\ hpc[c] = "registered"
    /\ rpc[c] # "done" \/ wpc[c] # "done"
    /\ MayEnd(c)
    /\ open' = [open EXCEPT ![c] = FALSE]
    /\ UNCHANGED <<next_token, sessions, conn_vars, chan_vars, out, reader_vars,
                   writer_vars, last_seen, nmsg, not_connected, ret>>
    /\ UNCHANGED rest_vars

\* ------------------------------------------------------------------ writer task
\* (mutant) a failed write is skipped and the loop goes on
WriterDrain_Continue(c) ==
    /\ wpc[c] = "recv"
    /\ queue[c] # <<>>
    /\ queue' = [queue EXCEPT ![c] = Tail(queue[c])]
    /\ out' = IF open[c] THEN [out EXCEPT ![c] = Append(out[c], Head(queue[c]))] ELSE out
    /\ wpc' = wpc
    /\ UNCHANGED <<next_token, sessions, conn_vars, tx_live, rx_live, enqueued, open,
                   reader_vars, wremoved, last_seen, nmsg, not_connected, ret>>
    /\ UNCHANGED rest_vars

\* (mutant) the writer drops its receiver as it leaves the loop
WriterDrain_DropReceiver(c) ==
    /\ wpc[c] = "recv"
    /\ queue[c] # <<>>
    /\ queue' = [queue EXCEPT ![c] = Tail(queue[c])]
    /\ IF open[c]
         THEN /\ out' = [out EXCEPT ![c] = Append(out[c], Head(queue[c]))]
              /\ wpc' = wpc
              /\ rx_live' = rx_live
         ELSE /\ out' = out
              /\ wpc' = [wpc EXCEPT ![c] = "unreg"]
              /\ rx_live' = [rx_live EXCEPT ![c] = FALSE]
    /\ UNCHANGED <<next_token, sessions, conn_vars, tx_live, enqueued, open,
                   reader_vars, wremoved, last_seen, nmsg, not_connected, ret>>
    /\ UNCHANGED rest_vars

\* outbound.recv() yields a frame and writer_session.binary(frame) writes it,
\* or fails and the loop breaks
WriterDrain(c) ==
    /\ wpc[c] = "recv"
    /\ queue[c] # <<>>
    /\ queue' = [queue EXCEPT ![c] = Tail(queue[c])]
    /\ IF open[c]
         THEN /\ out' = [out EXCEPT ![c] = Append(out[c], Head(queue[c]))]
              /\ wpc' = wpc
         ELSE /\ out' = out
              /\ wpc' = [wpc EXCEPT ![c] = "unreg"]
    /\ UNCHANGED <<next_token, sessions, conn_vars, tx_live, rx_live, enqueued, open,
                   reader_vars, wremoved, last_seen, nmsg, not_connected, ret>>
    /\ UNCHANGED rest_vars

\* outbound.recv() yields None: the channel is empty and its sender is gone
WriterChannelClosed(c) ==
    /\ wpc[c] = "recv"
    /\ queue[c] = <<>>
    /\ ~tx_live[c]
    /\ wpc' = [wpc EXCEPT ![c] = "unreg"]
    /\ UNCHANGED <<next_token, sessions, conn_vars, chan_vars, open, out, reader_vars,
                   wremoved, last_seen, nmsg, not_connected, ret>>
    /\ UNCHANGED rest_vars

\* the writer's teardown; the task ends and drops the receiver
WriterUnregister(c) ==
    /\ wpc[c] = "unreg"
    /\ sessions' = UnregisterWithToken(sessions, device_id[c], session_token[c])
    /\ wremoved' = [wremoved EXCEPT ![c] =
                      IF ShouldRemove(sessions, device_id[c], session_token[c])
                        THEN "true" ELSE "false"]
    /\ tx_live' = DropSenders(tx_live, sessions, sessions')
    /\ rx_live' = [rx_live EXCEPT ![c] = FALSE]
    /\ wpc' = [wpc EXCEPT ![c] = "done"]
    /\ UNCHANGED <<next_token, conn_vars, queue, enqueued, open, out, reader_vars,
                   last_seen, nmsg, not_connected, ret>>
    /\ wcalls' = [wcalls EXCEPT ![c] = wcalls[c] + 1]
    /\ UNCHANGED <<device_keys, origin, rcalls, arg, redis, claim>>

\* ------------------------------------------------------------------ reader task
\* (mutant) the control branch is missing
IsControl_Never(message) == FALSE

\* message.msg_type == MessageType::Control
IsControl(message) == message.msg_type = "control"

\* msg_stream.recv() yields Message::Binary (not empty) or Message::Text.
\* handle_binary_message decodes the frame and parses the envelope
\* (handle_text_message parses the text); a control envelope goes to
\* handle_control_message; a clipboard envelope touches the sender's session, has
\* its encryption block validated and, if valid, is routed in the next step as
\* the frame itself (a text is encoded into a frame first).
ReaderRecv(c, msg) ==
    /\ rpc[c] = "recv"
    /\ open[c]
    /\ msg.bytes # <<>>
    /\ nmsg' = nmsg + 1
    /\ LET decoded == IF msg.ws = "binary" THEN decode_binary_frame(msg.bytes)
                      ELSE DecodeOk(msg.bytes)
           parsed == IF decoded.ok THEN FromStr(decoded.json) ELSE NotAnEnvelope
           frame == IF msg.ws = "binary" THEN msg.bytes ELSE encode_binary_frame(msg.bytes)
           control == ControlPayloadOf(parsed.payload)
       IN IF ~parsed.ok
            THEN UNCHANGED <<last_seen, device_keys, rpc, rframe, rtarget, origin>>
          ELSE IF IsControl(parsed)
            THEN /\ last_seen' = Touch(last_seen, sessions, device_id[c], nmsg + 1)
                 /\ device_keys' = ControlKeys(device_keys, device_id[c], control)
                 /\ IF IsQuery(control)
                      THEN /\ rpc' = [rpc EXCEPT ![c] = "respond"]
                           /\ rframe' = [rframe EXCEPT ![c] =
                                ControlResponseFrame(parsed.id,
                                   FilterPeers(GetConnectedDevicesInfo(sessions, last_seen'),
                                               control.device_ids))]
                      ELSE UNCHANGED <<rpc, rframe>>
                 /\ UNCHANGED <<rtarget, origin>>
          ELSE /\ last_seen' = Touch(last_seen, sessions, device_id[c], nmsg + 1)
               /\ IF validate_encryption_block(ClipboardPayloadOf(parsed.payload)) = "Ok"
                    THEN /\ rframe' = [rframe EXCEPT ![c] = Forward(parsed, frame)]
                         /\ rtarget' = [rtarget EXCEPT ![c] =
                               IF parsed.target = NoTarget THEN NoTarget
                               ELSE to_lowercase(parsed.target)]
                         /\ rpc' = [rpc EXCEPT ![c] = "route"]
                         /\ origin' = origin \cup {[id |-> parsed.id, conn |-> c, message |-> msg]}
                    ELSE UNCHANGED <<rpc, rframe, rtarget, origin>>
               /\ UNCHANGED device_keys
    /\ UNCHANGED <<next_token, sessions, conn_vars, chan_vars, open, out, rremoved,
                   writer_vars, not_connected, ret, rcalls, wcalls, arg, redis, claim>>

\* query_connected_peers: the response is written with sender_session.binary;
\* a failed write is only logged
ReaderSendResponse(c) ==
    /\ rpc[c] = "respond"
    /\ out' = IF open[c] THEN [out EXCEPT ![c] = Append(out[c], rframe[c])] ELSE out
    /\ rpc' = [rpc EXCEPT ![c] = "recv"]
    /\ rframe' = [rframe EXCEPT ![c] = NoFrame]
    /\ UNCHANGED <<next_token, sessions, conn_vars, chan_vars, open, rtarget, rremoved,
                   writer_vars, last_seen, nmsg, not_connected, ret>>
    /\ UNCHANGED rest_vars

\* (mutant) the empty frame ends the task at once, without teardown
ReaderEmptyBinary_Return(c) ==
    /\ rpc[c] = "recv"
    /\ open[c]
    /\ MayEnd(c)
    /\ open' = [open EXCEPT ![c] = FALSE]
    /\ rpc' = [rpc EXCEPT ![c] = "done"]
    /\ UNCHANGED <<next_token, sessions, conn_vars, chan_vars, out, rframe,
                   rtarget, rremoved, writer_vars, last_seen, nmsg,
                   not_connected, ret>>
    /\ UNCHANGED rest_vars

\* Message::Binary with no bytes: the session is closed and the loop breaks
ReaderEmptyBinary(c) ==
    /\ rpc[c] = "recv"
    /\ open[c]
    /\ MayEnd(c)
    /\ open' = [open EXCEPT ![c] = FALSE]
    /\ rpc' = [rpc EXCEPT ![c] = "unreg"]
    /\ UNCHANGED <<next_token, sessions, conn_vars, chan_vars, out, rframe,
                   rtarget, rremoved, writer_vars, last_seen, nmsg,
                   not_connected, ret>>
    /\ UNCHANGED rest_vars

\* sessions.send_binary(&target, frame) under the read lock
ReaderSendTarget(c) ==
    /\ rpc[c] = "route"
    /\ rtarget[c] # NoTarget
    /\ LET res == SendBinaryResult(sessions, rtarget[c])
           to == IF res = "DeviceNotConnected" THEN {}
                 ELSE SendBinaryTargets(sessions, rtarget[c])
       IN /\ queue' = ChannelSend(queue, to, rframe[c])
          /\ enqueued' = ChannelSend(enqueued, to, rframe[c])
          /\ IF res = "DeviceNotConnected"
               THEN /\ rpc' = [rpc EXCEPT ![c] = "error"]
                    /\ not_connected' = not_connected \cup {rframe[c]}
                    /\ UNCHANGED <<rframe, rtarget>>
               ELSE /\ rpc' = [rpc EXCEPT ![c] = "recv"]
                    /\ rframe' = [rframe EXCEPT ![c] = NoFrame]
                    /\ rtarget' = [rtarget EXCEPT ![c] = NoTarget]
                    /\ not_connected' = not_connected
    /\ UNCHANGED <<next_token, sessions, conn_vars, tx_live, rx_live, open, out,
                   rremoved, writer_vars, last_seen, nmsg, ret>>
    /\ UNCHANGED rest_vars

\* DeviceNotConnected: get_connected_devices, then the error envelope is written
\* with sender_session.binary(error_frame); a failed write is only logged
ReaderSendError(c) ==
    /\ rpc[c] = "error"
    /\ LET registered_devices == GetConnectedDevices(sessions)
           error_frame == ErrorFrame(rframe[c].id, rtarget[c], registered_devices)
       IN out' = IF open[c] THEN [out EXCEPT ![c] = Append(out[c], error_frame)] ELSE out
    /\ rpc' = [rpc EXCEPT ![c] = "recv"]
    /\ rframe' = [rframe EXCEPT ![c] = NoFrame]
    /\ rtarget' = [rtarget EXCEPT ![c] = NoTarget]
    /\ UNCHANGED <<next_token, sessions, conn_vars, chan_vars, open, rremoved,
                   writer_vars, last_seen, nmsg, not_connected, ret>>
    /\ UNCHANGED rest_vars

\* no target: sessions.broadcast_except_binary(sender_id, frame) under the read lock
ReaderBroadcast(c) ==
    /\ rpc[c] = "route"
    /\ rtarget[c] = NoTarget
    /\ LET to == BroadcastTargets(sessions, device_id[c])
       IN /\ queue' = ChannelSend(queue, to, rframe[c])
          /\ enqueued' = ChannelSend(enqueued, to, rframe[c])
    /\ rpc' = [rpc EXCEPT ![c] = "recv"]
    /\ rframe' = [rframe EXCEPT ![c] = NoFrame]
    /\ UNCHANGED <<next_token, sessions, conn_vars, tx_live, rx_live, open, out,
                   rtarget, rremoved, writer_vars, last_seen, nmsg, not_connected, ret>>
    /\ UNCHANGED rest_vars

\* Message::Close: the loop breaks
ReaderClose(c) ==
    /\ rpc[c] = "recv"
    /\ open[c]
    /\ MayEnd(c)
    /\ rpc' = [rpc EXCEPT ![c] = "unreg"]
    /\ UNCHANGED <<next_token, sessions, conn_vars, chan_vars, open, out, rframe,
                   rtarget, rremoved, writer_vars, last_seen, nmsg,
                   not_connected, ret>>
    /\ UNCHANGED rest_vars

\* Some(Err(e)) or None: the stream has ended
ReaderStreamEnd(c) ==
    /\ rpc[c] = "recv"
    /\ ~open[c]
    /\ rpc' = [rpc EXCEPT ![c] = "unreg"]
    /\ UNCHANGED <<next_token, sessions, conn_vars, chan_vars, open, out, rframe,
                   rtarget, rremoved, writer_vars, last_seen, nmsg,
                   not_connected, ret>>
    /\ UNCHANGED rest_vars

\* (mutant) the teardown also forgets the device's key
ReaderUnregister_DropKey(c) ==
    /\ rpc[c] = "unreg"
    /\ sessions' = UnregisterWithToken(sessions, device_id[c], session_token[c])
    /\ rremoved' = [rremoved EXCEPT ![c] =
                      IF ShouldRemove(sessions, device_id[c], session_token[c])
                        THEN "true" ELSE "false"]
    /\ tx_live' = DropSenders(tx_live, sessions, sessions')
    /\ rpc' = [rpc EXCEPT ![c] = "done"]
    /\ UNCHANGED <<next_token, conn_vars, rx_live, queue, enqueued, open, out, rframe,
                   rtarget, writer_vars, last_seen, nmsg, not_connected, ret>>
    /\ rcalls' = [rcalls EXCEPT ![c] = rcalls[c] + 1]
    /\ device_keys' = KeyStoreRemove(device_keys, device_id[c])
    /\ UNCHANGED <<origin, wcalls, arg, redis, claim>>

\* the reader's teardown
ReaderUnregister(c) ==
    /\ rpc[c] = "unreg"
    /\ sessions' = UnregisterWithToken(sessions, device_id[c], session_token[c])
    /\ rremoved' = [rremoved EXCEPT ![c] =
                      IF ShouldRemove(sessions, device_id[c], session_token[c])
                        THEN "true" ELSE "false"]
    /\ tx_live' = DropSenders(tx_live, sessions, sessions')
    /\ rpc' = [rpc EXCEPT ![c] = "done"]
    /\ UNCHANGED <<next_token, conn_vars, rx_live, queue, enqueued, open, out, rframe,
                   rtarget, writer_vars, last_seen, nmsg, not_connected, ret>>
    /\ rcalls' = [rcalls EXCEPT ![c] = rcalls[c] + 1]
    /\ UNCHANGED <<device_keys, origin, wcalls, arg, redis, claim>>

\* the reader's stream.next() yields the next inbound frame; the number of inbound
\* frames of a run is capped at MaxMsg
ReaderNextFrame(c) ==
    /\ nmsg < MaxMsg
    /\ \E msg \in InboundMessages(nmsg + 1) : ReaderRecv(c, msg)

Next ==
    \/ \E c \in Conns : \E raw \in HeaderIds(c) : Connect(c, raw)
    \/ \E c \in Conns : Register(c)
    \/ \E c \in Conns : ClientClose(c)
    \/ \E c \in Conns : WriterDrain(c)
    \/ \E c \in Conns : WriterChannelClosed(c)
    \/ \E c \in Conns : WriterUnregister(c)
    \/ \E c \in Conns : ReaderNextFrame(c)
    \/ \E c \in Conns : ReaderSendResponse(c)
    \/ \E c \in Conns : ReaderEmptyBinary(c)
    \/ \E c \in Conns : ReaderSendTarget(c)
    \/ \E c \in Conns : ReaderSendError(c)
    \/ \E c \in Conns : ReaderBroadcast(c)
    \/ \E c \in Conns : ReaderClose(c)
    \/ \E c \in Conns : ReaderStreamEnd(c)
    \/ \E c \in Conns : ReaderUnregister(c)

Spec == Init /\ [][Next]_vars

\* ------------------------------------------------------------------ two open connections
\* Two connections that stay open and exchange up to MaxSeqMsg valid clipboard
\* messages, addressed to device "b" or to everyone.
SeqConns == {1, 2}
SeqMessages(id) ==
    MessagesOf({EnvelopeText(1, id, t, 1) : t \in {"b", NoTarget}}, {})

ReaderNextSeqFrame(c) ==
    /\ nmsg < MaxSeqMsg
    /\ \E msg \in SeqMessages(nmsg + 1) : ReaderRecv(c, msg)

NextSeq ==
    \/ \E c \in SeqConns : \E raw \in HeaderIds(c) : Connect(c, raw)
    \/ \E c \in SeqConns : Register(c)
    \/ \E c \in SeqConns : WriterDrain(c)
    \/ \E c \in SeqConns : WriterChannelClosed(c)
    \/ \E c \in SeqConns : WriterUnregister(c)
    \/ \E c \in SeqConns : ReaderNextSeqFrame(c)
    \/ \E c \in SeqConns : ReaderSendTarget(c)
    \/ \E c \in SeqConns : ReaderSendError(c)
    \/ \E c \in SeqConns : ReaderBroadcast(c)

SpecSeq == Init /\ [][NextSeq]_vars

\* ------------------------------------------------------------------ scheduled tasks
\* The connections of a run exchanging valid clipboard messages, with takeover
\* and teardown.  The runtime keeps polling a spawned task that can make progress:
\* a writer blocked in recv() is woken by a frame or by the channel's close,
\* its write completes or fails, and its unregister_with_token gets the lock.
ReaderNextLiveFrame(c) ==
    /\ nmsg < MaxMsg
    /\ \E msg \in SeqMessages(nmsg + 1) : ReaderRecv(c, msg)

NextLive ==
    \/ \E c \in Conns : \E raw \in HeaderIds(c) : Connect(c, raw)
    \/ \E c \in Conns : Register(c)
    \/ \E c \in Conns : ClientClose(c)
    \/ \E c \in Conns : WriterDrain(c)
    \/ \E c \in Conns : WriterChannelClosed(c)
    \/ \E c \in Conns : WriterUnregister(c)
    \/ \E c \in Conns : ReaderNextLiveFrame(c)
    \/ \E c \in Conns : ReaderSendTarget(c)
    \/ \E c \in Conns : ReaderSendError(c)
    \/ \E c \in Conns : ReaderBroadcast(c)
    \/ \E c \in Conns : ReaderClose(c)
    \/ \E c \in Conns : ReaderStreamEnd(c)
    \/ \E c \in Conns : ReaderUnregister(c)

WriterFairness ==
    \A c \in Conns :
        /\ WF_vars(WriterDrain(c))
        /\ WF_vars(WriterChannelClosed(c))
        /\ WF_vars(WriterUnregister(c))

SpecLive == Init /\ [][NextLive]_vars /\ WriterFairness

\* ------------------------------------------------------------------ a closing connection
\* Two connections exchanging up to MaxWinMsg valid clipboard messages while
\* the client ends one of them: frames are sent to a device whose writer has
\* failed and has not yet torn down.
ReaderNextWinFrame(c) ==
    /\ nmsg < MaxWinMsg
    /\ \E msg \in SeqMessages(nmsg + 1) : ReaderRecv(c, msg)

NextWin ==
    \/ \E c \in SeqConns : \E raw \in HeaderIds(c) : Connect(c, raw)
    \/ \E c \in SeqConns : Register(c)
    \/ \E c \in SeqConns : ClientClose(c)
    \/ \E c \in SeqConns : WriterDrain(c)
    \/ \E c \in SeqConns : WriterChannelClosed(c)
    \/ \E c \in SeqConns : WriterUnregister(c)
    \/ \E c \in SeqConns : ReaderNextWinFrame(c)
    \/ \E c \in SeqConns : ReaderSendTarget(c)
    \/ \E c \in SeqConns : ReaderSendError(c)
    \/ \E c \in SeqConns : ReaderBroadcast(c)
    \/ \E c \in SeqConns : ReaderClose(c)
    \/ \E c \in SeqConns : ReaderStreamEnd(c)
    \/ \E c \in SeqConns : ReaderUnregister(c)

SpecWin == Init /\ [][NextWin]_vars

\* ------------------------------------------------------------------ control envelopes
\* Two connections that stay open and send up to MaxCtlMsg envelopes: control
\* envelopes of every kind and valid clipboard envelopes.
CtlMessages(id) ==
    MessagesOf(ControlTexts(id) \cup {EnvelopeText(1, id, t, 1) : t \in {"b", NoTarget}}, {})
CtlTable == [id \in 1..(MaxCtlMsg + 1) |-> CtlMessages(id)]

ReaderNextCtlFrame(c) ==
    /\ nmsg < MaxCtlMsg
    /\ \E msg \in CtlTable[nmsg + 1] : ReaderRecv(c, msg)

NextCtl ==
    \/ \E c \in SeqConns : \E raw \in HeaderIds(c) : Connect(c, raw)
    \/ \E c \in SeqConns : Register(c)
    \/ \E c \in SeqConns : WriterDrain(c)
    \/ \E c \in SeqConns : WriterChannelClosed(c)
    \/ \E c \in SeqConns : WriterUnregister(c)
    \/ \E c \in SeqConns : ReaderNextCtlFrame(c)
    \/ \E c \in SeqConns : ReaderSendResponse(c)
    \/ \E c \in SeqConns : ReaderSendTarget(c)
    \/ \E c \in SeqConns : ReaderSendError(c)
    \/ \E c \in SeqConns : ReaderBroadcast(c)

SpecCtl == Init /\ [][NextCtl]_vars

\* ------------------------------------------------------------------ letter case
\* Two connections whose X-Device-Id headers are drawn, in either letter case,
\* before the run; up to MaxMsg valid clipboard frames with a target in either
\* letter case.  arg[c] is the header connection c presents.
CaseHeaders == {"a", "A", "b", "B"}
InitCase == RelayInit /\ arg \in [SeqConns -> CaseHeaders]

CaseMessages(id) ==
    MessagesOf({EnvelopeText(1, id, t, 1) : t \in CaseHeaders \cup {NoTarget}}, {})

ReaderNextCaseFrame(c) ==
    /\ nmsg < MaxMsg
    /\ \E msg \in CaseMessages(nmsg + 1) : ReaderRecv(c, msg)

NextCase ==
    \/ \E c \in SeqConns : Connect(c, arg[c])
    \/ \E c \in SeqConns : Register(c)
    \/ \E c \in SeqConns : WriterDrain(c)
    \/ \E c \in SeqConns : WriterChannelClosed(c)
    \/ \E c \in SeqConns : WriterUnregister(c)
    \/ \E c \in SeqConns : ReaderNextCaseFrame(c)
    \/ \E c \in SeqConns : ReaderSendTarget(c)
    \/ \E c \in SeqConns : ReaderSendError(c)
    \/ \E c \in SeqConns : ReaderBroadcast(c)

SpecCase == InitCase /\ [][NextCase]_vars

\* ------------------------------------------------------------------ admission
\* Two upgrade requests whose headers are drawn before the run.  arg.secret is
\* the RELAY_WS_AUTH_TOKEN of the relay's environment (NoHeader: not set),
\* arg.req[c] the request of connection c: its X-Device-Id, X-Device-Platform
\* and X-Auth-Token headers (NoHeader: not sent) and whether it is a well-formed
\* WebSocket upgrade.
NoHeader == "<absent>"
\* base64(HMAC-SHA256(secret, device_id)): one token per secret and device id
compute_ws_auth_token(secret, id) == <<"hmac", secret, id>>
Requests ==
    [device_id : {NoHeader, "a", "A"},
     platform : {NoHeader, "macos"},
     auth_token : {<<NoHeader>>} \cup
                  {compute_ws_auth_token(secret, id) :
                      secret \in {"test-secret", "other-secret"}, id \in {"a", "A"}},
     upgrade : BOOLEAN]
InitAdmit ==
    RelayInit /\ arg \in [secret : {NoHeader, "test-secret"}, req : [SeqConns -> Requests]]

\* (mutant) only X-Device-Id is required
HeadersPresent_IdOnly(r) == r.device_id # NoHeader

\* device_id.is_none() || platform.is_none(), negated
HeadersPresent(r) == r.device_id # NoHeader /\ r.platform # NoHeader

\* the handler returns 400: a device header is missing
AdmitBadRequest(c) ==
    /\ hpc[c] = "new"
    /\ \A b \in Conns : b < c => hpc[b] # "new"
    /\ ~HeadersPresent(arg.req[c])
    /\ hpc' = [hpc EXCEPT ![c] = "bad_request"]
    /\ UNCHANGED <<next_token, sessions, device_id, session_token, chan_vars, open, out,
                   reader_vars, writer_vars, last_seen, nmsg, not_connected, ret>>
    /\ UNCHANGED rest_vars

\* actix_ws::handle fails and the handler returns its error
AdmitHandshakeError(c) ==
    /\ hpc[c] = "new"
    /\ \A b \in Conns : b < c => hpc[b] # "new"
    /\ HeadersPresent(arg.req[c])
    /\ ~arg.req[c].upgrade
    /\ hpc' = [hpc EXCEPT ![c] = "handshake_error"]
    /\ UNCHANGED <<next_token, sessions, device_id, session_token, chan_vars, open, out,
                   reader_vars, writer_vars, last_seen, nmsg, not_connected, ret>>
    /\ UNCHANGED rest_vars

\* both headers present and the upgrade done: the handler goes on to register
AdmitUpgrade(c) ==
    /\ HeadersPresent(arg.req[c])
    /\ arg.req[c].upgrade
    /\ Connect(c, arg.req[c].device_id)

NextAdmit ==
    \/ \E c \in SeqConns : AdmitBadRequest(c)
    \/ \E c \in SeqConns : AdmitHandshakeError(c)
    \/ \E c \in SeqConns : AdmitUpgrade(c)
    \/ \E c \in SeqConns : Register(c)
    \/ \E c \in SeqConns : ClientClose(c)
    \/ \E c \in SeqConns : ReaderClose(c)
    \/ \E c \in SeqConns : ReaderUnregister(c)

SpecAdmit == InitAdmit /\ [][NextAdmit]_vars

\* ------------------------------------------------------------------ direct calls
\* The SessionManager API called directly, one whole call after another, as the
\* unit and integration tests do; the caller keeps the receivers.
Call(op, d, value) == [op |-> op, device_id |-> d, value |-> value]

NextConn == CHOOSE c \in Conns : hpc[c] = "new" /\ \A b \in Conns : b < c => hpc[b] # "new"

\* manager.register(d).await
ApiRegister(d) ==
    /\ \E c \in Conns : hpc[c] = "new"
    /\ LET c == NextConn
           token == FetchAddResult(next_token)
       IN /\ d \in {to_lowercase(raw) : raw \in HeaderIds(c)}
          /\ next_token' = FetchAdd(next_token)
          /\ sessions' = RegisterInsert(sessions, d, c, token)
          /\ tx_live' = DropSenders([tx_live EXCEPT ![c] = TRUE], sessions, sessions')
          /\ rx_live' = [rx_live EXCEPT ![c] = TRUE]
          /\ hpc' = [hpc EXCEPT ![c] = "registered"]
          /\ device_id' = [device_id EXCEPT ![c] = d]
          /\ session_token' = [session_token EXCEPT ![c] = token]
          /\ last_seen' = [last_seen EXCEPT ![c] = nmsg]
          /\ ret' = Call("register", d, "Registration")
    /\ UNCHANGED <<queue, enqueued, open, out, reader_vars, writer_vars, nmsg,
                   not_connected>>
    /\ UNCHANGED rest_vars

\* manager.unregister_with_token(d, token).await
ApiUnregisterWithToken(d, token) ==
    /\ sessions' = UnregisterWithToken(sessions, d, token)
    /\ tx_live' = DropSenders(tx_live, sessions, sessions')
    /\ ret' = Call("unregister_with_token", d,
                   IF ShouldRemove(sessions, d, token) THEN "true" ELSE "false")
    /\ UNCHANGED <<next_token, conn_vars, rx_live, queue, enqueued, open, out,
                   reader_vars, writer_vars, last_seen, nmsg, not_connected>>
    /\ UNCHANGED rest_vars

\* manager.unregister(d).await
ApiUnregister(d) ==
    /\ sessions' = HashMapRemove(sessions, d)
    /\ tx_live' = DropSenders(tx_live, sessions, sessions')
    /\ ret' = Call("unregister", d, "()")
    /\ UNCHANGED <<next_token, conn_vars, rx_live, queue, enqueued, open, out,
                   reader_vars, writer_vars, last_seen, nmsg, not_connected>>
    /\ UNCHANGED rest_vars

\* manager.send_binary(d, frame).await
ApiSendBinary(d) ==
    /\ nmsg < MaxMsg
    /\ nmsg' = nmsg + 1
    /\ LET frame == ClipboardFrame(nmsg + 1, d, TRUE)
           res == SendBinaryResult(sessions, d)
           to == IF res = "DeviceNotConnected" THEN {} ELSE SendBinaryTargets(sessions, d)
       IN /\ queue' = ChannelSend(queue, to, frame)
          /\ enqueued' = ChannelSend(enqueued, to, frame)
          /\ not_connected' = IF res = "DeviceNotConnected"
                                THEN not_connected \cup {frame} ELSE not_connected
          /\ ret' = Call("send_binary", d, res)
    /\ UNCHANGED <<next_token, sessions, conn_vars, tx_live, rx_live, open, out,
                   reader_vars, writer_vars, last_seen>>
    /\ UNCHANGED rest_vars

\* manager.broadcast_except_binary(sender_id, frame).await
ApiBroadcastExceptBinary(sender_id) ==
    /\ nmsg < MaxMsg
    /\ nmsg' = nmsg + 1
    /\ LET frame == ClipboardFrame(nmsg + 1, NoTarget, TRUE)
           to == BroadcastTargets(sessions, sender_id)
       IN /\ queue' = ChannelSend(queue, to, frame)
          /\ enqueued' = ChannelSend(enqueued, to, frame)
          /\ ret' = Call("broadcast_except_binary", sender_id, "()")
    /\ UNCHANGED <<next_token, sessions, conn_vars, tx_live, rx_live, open, out,
                   reader_vars, writer_vars, last_seen, not_connected>>
    /\ UNCHANGED rest_vars

\* rx.recv().await on a receiver the caller holds: a frame, or None once the
\* channel is empty and its sender is gone
ApiRecv(c) ==
    /\ hpc[c] = "registered"
    /\ wpc[c] = "none"
    /\ rx_live[c]
    /\ queue[c] # <<>> \/ ~tx_live[c]
    /\ IF queue[c] # <<>>
         THEN /\ queue' = [queue EXCEPT ![c] = Tail(queue[c])]
              /\ ret' = Call("recv", device_id[c], "Some")
         ELSE /\ queue' = queue
              /\ ret' = Call("recv", device_id[c], "None")
    /\ UNCHANGED <<next_token, sessions, conn_vars, tx_live, rx_live, enqueued, open,
                   out, reader_vars, writer_vars, last_seen, nmsg, not_connected>>
    /\ UNCHANGED rest_vars

\* the caller drops a receiver
ApiDropReceiver(c) ==
    /\ hpc[c] = "registered"
    /\ wpc[c] = "none"
    /\ rx_live[c]
    /\ rx_live' = [rx_live EXCEPT ![c] = FALSE]
    /\ ret' = Call("drop", device_id[c], "()")
    /\ UNCHANGED <<next_token, sessions, conn_vars, tx_live, queue, enqueued, open,
                   out, reader_vars, writer_vars, last_seen, nmsg, not_connected>>
    /\ UNCHANGED rest_vars

NextApi ==
    \/ \E d \in Devices : ApiRegister(d)
    \/ \E d \in Devices, token \in 0..MaxConn : ApiUnregisterWithToken(d, token)
    \/ \E d \in Devices : ApiUnregister(d)
    \/ \E d \in Devices : ApiSendBinary(d)
    \/ \E d \in Devices : ApiBroadcastExceptBinary(d)
    \/ \E c \in Conns : ApiRecv(c)
    \/ \E c \in Conns : ApiDropReceiver(c)

SpecApi == Init /\ [][NextApi]_vars

\* ------------------------------------------------------------------ codec
\* encode_binary_frame applied to a drawn text, then decode_binary_frame applied
\* to the frame.  The texts: every text of up to four characters out of "A", "{"
\* and the two-byte character U+00E9, and texts whose byte count needs the
\* second and the third byte of the length prefix.
CodecChars == {<<65>>, <<123>>, <<195, 169>>}
RECURSIVE TextsOf(_)
TextsOf(n) ==
    IF n = 0 THEN {<<>>}
    ELSE TextsOf(n - 1) \cup {t \o ch : t \in TextsOf(n - 1), ch \in CodecChars}
LongLengths == {255, 256, 257, 65535, 65536, 65537}
CodecTexts == TextsOf(4) \cup {<<195, 169>> \o Rep(65, n - 2) : n \in LongLengths}
InitCodec == RelayInit /\ arg \in CodecTexts

EncodeFrame ==
    /\ ret = NoCall
    /\ ret' = Call("encode_binary_frame", NoDevice, encode_binary_frame(arg))
    /\ UNCHANGED <<next_token, sessions, conn_vars, chan_vars, open, out, reader_vars,
                   writer_vars, last_seen, nmsg, not_connected>>
    /\ UNCHANGED rest_vars

DecodeFrame ==
    /\ ret.op = "encode_binary_frame"
    /\ ret' = Call("decode_binary_frame", NoDevice, decode_binary_frame(ret.value))
    /\ UNCHANGED <<next_token, sessions, conn_vars, chan_vars, open, out, reader_vars,
                   writer_vars, last_seen, nmsg, not_connected>>
    /\ UNCHANGED rest_vars

NextCodec == EncodeFrame \/ DecodeFrame
SpecCodec == InitCodec /\ [][NextCodec]_vars

\* ------------------------------------------------------------------ pairing
\* One pairing code and one claim request per responder.  Each request runs
\* claim_pairing_code on its own clone of the Redis connection: a GET, the
\* check, then a SET EX, with the other requests free to run in between.

\* create_pairing_code: SET NX of an entry without responder
CreatePairingCode ==
    /\ redis = NoPairingEntry
    /\ redis' = [redis EXCEPT !.present = TRUE]
    /\ UNCHANGED <<next_token, sessions, conn_vars, chan_vars, open, out, reader_vars,
                   writer_vars, last_seen, nmsg, not_connected, ret>>
    /\ UNCHANGED <<device_keys, origin, rcalls, wcalls, arg, claim>>

\* the clock passes expires_at and Redis drops the key
ExpirePairingCode ==
    /\ redis.present
    /\ redis' = [redis EXCEPT !.present = FALSE, !.expired = TRUE]
    /\ UNCHANGED <<next_token, sessions, conn_vars, chan_vars, open, out, reader_vars,
                   writer_vars, last_seen, nmsg, not_connected, ret>>
    /\ UNCHANGED <<device_keys, origin, rcalls, wcalls, arg, claim>>

\* claim_pairing_code up to the save: load_pairing_entry, NotFound,
\* AlreadyClaimed, or the entry is free and the responder fields are set
ClaimLoad(r) ==
    /\ claim[r].pc = "new"
    /\ claim' = [claim EXCEPT ![r] =
                   IF ~redis.present THEN [claim[r] EXCEPT !.pc = "done", !.result = "NotFound"]
                   ELSE IF redis.responder_device_id # NoDevice
                          THEN [claim[r] EXCEPT !.pc = "done", !.result = "AlreadyClaimed"]
                   ELSE [claim[r] EXCEPT !.pc = "loaded"]]
    /\ UNCHANGED <<next_token, sessions, conn_vars, chan_vars, open, out, reader_vars,
                   writer_vars, last_seen, nmsg, not_connected, ret>>
    /\ UNCHANGED <<device_keys, origin, rcalls, wcalls, arg, redis>>

\* save_pairing_entry: Expired once expires_at has passed, else SET EX of the
\* entry the request loaded, with its responder
ClaimSave(r) ==
    /\ claim[r].pc = "loaded"
    /\ IF redis.expired
         THEN claim' = [claim EXCEPT ![r] = [claim[r] EXCEPT !.pc = "done", !.result = "Expired"]] /\ UNCHANGED redis
         ELSE /\ redis' = [redis EXCEPT !.present = TRUE, !.responder_device_id = r]
              /\ claim' = [claim EXCEPT ![r] = [claim[r] EXCEPT !.pc = "done", !.result = "Ok"]]
    /\ UNCHANGED <<next_token, sessions, conn_vars, chan_vars, open, out, reader_vars,
                   writer_vars, last_seen, nmsg, not_connected, ret>>
    /\ UNCHANGED <<device_keys, origin, rcalls, wcalls, arg>>

\* a responder sends its claim again
ClaimAgain(r) ==
    /\ claim[r].pc = "done"
    /\ claim[r].result # "Ok"
    /\ claim[r].attempt < MaxClaim
    /\ claim' = [claim EXCEPT ![r] = [pc |-> "new", result |-> "none",
                                      attempt |-> claim[r].attempt + 1]]
    /\ UNCHANGED <<next_token, sessions, conn_vars, chan_vars, open, out, reader_vars,
                   writer_vars, last_seen, nmsg, not_connected, ret>>
    /\ UNCHANGED <<device_keys, origin, rcalls, wcalls, arg, redis>>

NextPairing ==
    \/ CreatePairingCode
    \/ ExpirePairingCode
    \/ \E r \in Responders : ClaimLoad(r)
    \/ \E r \in Responders : ClaimSave(r)
    \/ \E r \in Responders : ClaimAgain(r)

SpecPairing == Init /\ [][NextPairing]_vars

\* ------------------------------------------------------------------ validation on its own
\* validate_encryption_block applied to one payload, as its unit tests do
InitValidate == RelayInit /\ arg \in Payloads

ValidateEncryptionBlock ==
    /\ ret = NoCall
    /\ ret' = Call("validate_encryption_block", NoDevice, validate_encryption_block(arg))
    /\ UNCHANGED <<next_token, sessions, conn_vars, chan_vars, open, out, reader_vars,
                   writer_vars, last_seen, nmsg, not_connected>>
    /\ UNCHANGED rest_vars

NextValidate == ValidateEncryptionBlock

SpecValidate == InitValidate /\ [][NextValidate]_vars

\* ------------------------------------------------------------------ key store on its own
\* The DeviceKeyStore API called directly, as its unit test does, and
\* handle_control_message called directly with a key payload, as the handler's
\* unit tests do.
KeyDevices == {"a", "b", "c"}
KeyValues == {Zeros(32), Zeros(3), Zeros(33)}
\* the control payloads that are not a peer query
KeyPayloads == {k \in DOMAIN ControlPayloads : ~IsQuery(ControlPayloads[k])}

\* store.store(d, key).await
StoreKey(d, key) ==
    /\ device_keys' = KeyStoreStore(device_keys, d, key)
    /\ ret' = Call("store", d, SomeKey(key))
    /\ UNCHANGED <<next_token, sessions, conn_vars, chan_vars, open, out, reader_vars,
                   writer_vars, last_seen, nmsg, not_connected>>
    /\ UNCHANGED <<origin, rcalls, wcalls, arg, redis, claim>>

\* store.remove(d).await
RemoveKey(d) ==
    /\ device_keys' = KeyStoreRemove(device_keys, d)
    /\ ret' = Call("remove", d, NoKey)
    /\ UNCHANGED <<next_token, sessions, conn_vars, chan_vars, open, out, reader_vars,
                   writer_vars, last_seen, nmsg, not_connected>>
    /\ UNCHANGED <<origin, rcalls, wcalls, arg, redis, claim>>

\* store.get(d).await
GetKey(d) ==
    /\ ret' = Call("get", d, KeyStoreGet(device_keys, d))
    /\ UNCHANGED <<next_token, sessions, conn_vars, chan_vars, open, out, reader_vars,
                   writer_vars, last_seen, nmsg, not_connected>>
    /\ UNCHANGED rest_vars

\* store.is_registered(d).await
IsRegistered(d) ==
    /\ ret' = Call("is_registered", d,
                   IF KeyStoreIsRegistered(device_keys, d) THEN SomeKey(<<>>) ELSE NoKey)
    /\ UNCHANGED <<next_token, sessions, conn_vars, chan_vars, open, out, reader_vars,
                   writer_vars, last_seen, nmsg, not_connected>>
    /\ UNCHANGED rest_vars

\* what the payload's _device_id field holds: a device id or a number; and the
\* payloads given the field: register_key with a 32-byte key, deregister_key
NamedDevices == {JString(<<"a">>), JString(<<"b">>), JNumber}
NamingPayloads ==
    {k \in DOMAIN ControlPayloads :
        LET p == ControlPayloads[k]
        IN /\ IsStr(p.action)
           /\ \/ p.action.s = "deregister_key"
              \/ /\ p.action.s = "register_key"
                 /\ IsStr(p.symmetric_key)
                 /\ p.symmetric_key.s = B64Padded(32)}

\* handle_control_message(d, id, payload, store, sessions, session).await
HandleKeyControl(d, k) ==
    /\ last_seen' = Touch(last_seen, sessions, d, nmsg)
    /\ device_keys' = ControlKeys(device_keys, d, ControlPayloads[k])
    /\ ret' = Call("handle_control_message", d, NoKey)
    /\ UNCHANGED <<next_token, sessions, conn_vars, chan_vars, open, out, reader_vars,
                   writer_vars, nmsg, not_connected>>
    /\ UNCHANGED <<origin, rcalls, wcalls, arg, redis, claim>>

\* the same for a register_key or deregister_key payload whose _device_id
\* field is v; arg keeps the payload handled
HandleNamingControl(d, k, v) ==
    /\ last_seen' = Touch(last_seen, sessions, d, nmsg)
    /\ device_keys' = ControlKeys(device_keys, d, Naming(ControlPayloads[k], v))
    /\ ret' = Call("handle_control_message", d, NoKey)
    /\ arg' = [payload |-> k, device_id |-> v]
    /\ UNCHANGED <<next_token, sessions, conn_vars, chan_vars, open, out, reader_vars,
                   writer_vars, nmsg, not_connected>>
    /\ UNCHANGED <<origin, rcalls, wcalls, redis, claim>>

NextKeys ==
    \/ \E d \in KeyDevices, key \in KeyValues : StoreKey(d, key)
    \/ \E d \in KeyDevices : RemoveKey(d)
    \/ \E d \in KeyDevices : GetKey(d)
    \/ \E d \in KeyDevices : IsRegistered(d)
    \/ \E d \in KeyDevices, k \in KeyPayloads : HandleKeyControl(d, k)
    \/ \E d \in KeyDevices, k \in NamingPayloads, v \in NamedDevices :
          HandleNamingControl(d, k, v)

SpecKeys == Init /\ [][NextKeys]_vars

\* ------------------------------------------------------------------ peer queries
\* Connections come and go while peers are queried, by a query_connected_peers
\* control envelope that supplies device_ids and by GET /peers.  The ids of the
\* model hold no comma and no blank, so split(',') and trim leave them as they are.
QueryMessages(id) ==
    MessagesOf({EnvelopeText(2, id, NoTarget, Len(ControlPayloads) + i) : i \in DOMAIN PeerLists}, {})
QueryTable == [id \in 1..(MaxMsg + 1) |-> QueryMessages(id)]

ReaderNextQueryFrame(c) ==
    /\ nmsg < MaxMsg
    /\ \E msg \in QueryTable[nmsg + 1] : ReaderRecv(c, msg)

\* connected_peers_handler: the requested ids, lowercased, empty ones left out
PeersRequested(device_id_param) ==
    {to_lowercase(device_id_param[i]) :
        i \in {j \in DOMAIN device_id_param : device_id_param[j] # ""}}

\* connected_peers_handler: 400 without a requested id, else the connected
\* devices whose id is requested
PeersResponse(infos, device_id_param) ==
    IF PeersRequested(device_id_param) = {}
      THEN [status |-> 400, connected_devices |-> {}]
      ELSE [status |-> 200,
            connected_devices |-> {i \in infos : i.device_id \in PeersRequested(device_id_param)}]

\* GET /peers?device_id=...
PeersRequest(device_id_param) ==
    /\ arg' = device_id_param
    /\ ret' = Call("peers", NoDevice,
                   PeersResponse(GetConnectedDevicesInfo(sessions, last_seen), device_id_param))
    /\ UNCHANGED <<next_token, sessions, conn_vars, chan_vars, open, out, reader_vars,
                   writer_vars, last_seen, nmsg, not_connected>>
    /\ UNCHANGED <<device_keys, origin, rcalls, wcalls, redis, claim>>

NextPeers ==
    \/ \E c \in Conns : \E raw \in HeaderIds(c) : Connect(c, raw)
    \/ \E c \in Conns : Register(c)
    \/ \E c \in Conns : ReaderNextQueryFrame(c)
    \/ \E c \in Conns : ReaderSendResponse(c)
    \/ \E c \in Conns : ReaderClose(c)
    \/ \E c \in Conns : ReaderUnregister(c)
    \/ \E i \in DOMAIN PeerLists : PeersRequest(PeerLists[i])

SpecPeers == Init /\ [][NextPeers]_vars

\* ------------------------------------------------------------------ target values
\* The connections of a run, none of which closes, and one valid clipboard
\* message whose target field is absent, a string or another JSON value.
TargetMessages(id) ==
    MessagesOf({<<1, id, k, 1>> : k \in {0} \cup DOMAIN TargetStrings \cup NonStringCodes}, {})

ReaderNextTargetFrame(c) ==
    /\ nmsg < MaxMsg
    /\ \E msg \in TargetMessages(nmsg + 1) : ReaderRecv(c, msg)

NextTarget ==
    \/ \E c \in Conns : \E raw \in HeaderIds(c) : Connect(c, raw)
    \/ \E c \in Conns : Register(c)
    \/ \E c \in Conns : WriterDrain(c)
    \/ \E c \in Conns : ReaderNextTargetFrame(c)
    \/ \E c \in Conns : ReaderSendTarget(c)
    \/ \E c \in Conns : ReaderSendError(c)
    \/ \E c \in Conns : ReaderBroadcast(c)

SpecTarget == Init /\ [][NextTarget]_vars

\* ================================================================== properties
\* steps of one connection, read off the positions of its handler and tasks
RegisterStep(c) == hpc[c] = "minted" /\ hpc'[c] = "registered"
ReaderTeardownStep(c) == rpc[c] = "unreg" /\ rpc'[c] = "done"
WriterTeardownStep(c) == wpc[c] = "unreg" /\ wpc'[c] = "done"

EntryOf(c) == SessionEntry(device_id[c], c, session_token[c])
EntriesUnder(S, d) == {e \in S : e.device_id = d}
\* the tokens minted so far by register calls for device d
MintedTokens(d) == {session_token[c] : c \in {x \in Conns : hpc[x] # "new" /\ device_id[x] = d}}

\* C1: an entry leaves the registry only in a teardown step of the connection
\* that registered it (unregister_with_token with its own token) or in the
\* register step of a later connection for the same device id; so the teardown
\* of a superseded connection's reader or writer never removes the newer entry.
StaleTeardownKeepsNewer ==
    [][\A e \in sessions :
          e \notin sessions' =>
             \/ ReaderTeardownStep(e.sender)
             \/ WriterTeardownStep(e.sender)
             \/ \E c \in Conns : RegisterStep(c) /\ device_id[c] = e.device_id]_vars

\* C1 witness: both tasks of a superseded connection have torn down, each with
\* removed = false, and the other connection's entry is still registered
StaleTeardownWitness ==
    \E c1, c2 \in Conns :
       /\ c1 # c2
       /\ device_id[c1] = device_id[c2]
       /\ rpc[c1] = "done" /\ rremoved[c1] = "false"
       /\ wpc[c1] = "done" /\ wremoved[c1] = "false"
       /\ EntryOf(c2) \in sessions

\* C2: unregister_with_token(d, t) removes d's entry iff there is one and its
\* token is t, returns true exactly then, and otherwise leaves the registry and
\* every channel as they were.
UnregisterWithTokenContract ==
    [][\A d \in Devices, t \in 0..MaxConn :
          ApiUnregisterWithToken(d, t) =>
             LET had == \E e \in sessions : e.device_id = d /\ e.token = t
             IN /\ ret'.value = (IF had THEN "true" ELSE "false")
                /\ had => /\ sessions' = {e \in sessions : e.device_id # d}
                          /\ \A c \in Conns : tx_live'[c] = (tx_live[c] /\ device_id[c] # d)
                /\ ~had => /\ sessions' = sessions
                           /\ tx_live' = tx_live
                /\ UNCHANGED <<rx_live, queue, enqueued>>]_vars

\* C2 witness: a call with a stale token returned false and the entry is there
UnregisterWithTokenWitness ==
    /\ ret.op = "unregister_with_token"
    /\ ret.value = "false"
    /\ ContainsKey(sessions, ret.device_id)
    /\ Cardinality(MintedTokens(ret.device_id)) > 1

\* C3: whenever no register call is in progress, the registry has at most one
\* entry per device id, and an entry's token is the largest token minted for its
\* device id.
OneEntryWithNewestToken ==
    (\A c \in Conns : hpc[c] # "minted") =>
       \A d \in Devices :
          /\ Cardinality(EntriesUnder(sessions, d)) <= 1
          /\ \A e \in EntriesUnder(sessions, d) : \A t \in MintedTokens(d) : t <= e.token

\* C4: under concurrent registration the tokens stored one after another in a
\* device's entry never decrease (the newest registration wins).
TokensNeverDecrease ==
    [][\A e \in sessions : \A n \in sessions' :
          n.device_id = e.device_id => n.token >= e.token]_vars

\* connection x is registered and another connection holds its device's entry
Superseded(x) ==
    /\ hpc[x] = "registered"
    /\ \E e \in sessions : e.device_id = device_id[x] /\ e.sender # x

\* C5: once a register for the same device id has replaced a session's entry,
\* the old session's channel is closed and no later send reaches it.
TakeoverClosesOld ==
    [][\A x \in Conns :
          /\ Superseded(x)' => ~tx_live'[x]
          /\ Superseded(x) => enqueued'[x] = enqueued[x]]_vars

\* C5 witness: after a takeover a targeted frame reached the new session only,
\* and the old session's writer has seen its channel end
TakeoverWitness ==
    \E x \in Conns : \E e \in sessions :
       /\ Superseded(x)
       /\ e.device_id = device_id[x]
       /\ enqueued[x] = <<>>
       /\ wpc[x] \in {"unreg", "done"}
       /\ open[x]
       /\ enqueued[e.sender] # <<>>
       /\ to_lowercase(enqueued[e.sender][1].target) = e.device_id

\* C6: whenever a session's receiver is given a frame, every other registered
\* session of the same device id already has its channel closed; so rx1 is
\* closed before rx2 receives anything.
OldClosedBeforeNewReceives ==
    [][\A c2 \in Conns :
          enqueued'[c2] # enqueued[c2] =>
             \A c1 \in Conns \ {c2} :
                (hpc[c1] = "registered" /\ device_id[c1] = device_id[c2]) => ~tx_live[c1]]_vars

\* C6 witness: register(d) -> (rx1, t1), then register(d) -> (rx2, t2), and rx2
\* has received a frame
OldClosedWitness ==
    \E c1, c2 \in Conns :
       /\ hpc[c1] = "registered" /\ hpc[c2] = "registered"
       /\ device_id[c1] = device_id[c2]
       /\ session_token[c1] < session_token[c2]
       /\ ~tx_live[c1]
       /\ enqueued[c2] # <<>>

Count(seq, f) == Cardinality({i \in DOMAIN seq : seq[i] = f})

BroadcastStep(c) == rpc[c] = "route" /\ rtarget[c] = NoTarget /\ rpc'[c] = "recv"
TargetStep(c) == rpc[c] = "route" /\ rtarget[c] # NoTarget /\ rpc'[c] # "route"
ErrorStep(c) == rpc[c] = "error" /\ rpc'[c] = "recv"

\* C7: a broadcast appends the frame exactly once to the channel of every
\* registered device other than the sender's, and nothing to the channel
\* registered under the sender's device id.
BroadcastFanOut ==
    [][\A c \in Conns :
          BroadcastStep(c) =>
             \A e \in sessions :
                IF e.device_id # device_id[c]
                  THEN /\ enqueued'[e.sender] = Append(enqueued[e.sender], rframe[c])
                       /\ queue'[e.sender] = Append(queue[e.sender], rframe[c])
                       /\ Count(enqueued'[e.sender], rframe[c]) = 1
                  ELSE /\ enqueued'[e.sender] = enqueued[e.sender]
                       /\ Count(enqueued'[e.sender], rframe[c]) = 0]_vars

\* C7 witness: three devices registered, one frame without target received by
\* two of them and not by the third
BroadcastWitness ==
    \E s, x, y \in Conns :
       /\ Cardinality({device_id[s], device_id[x], device_id[y]}) = 3
       /\ {EntryOf(s), EntryOf(x), EntryOf(y)} \subseteq sessions
       /\ enqueued[s] = <<>>
       /\ Len(enqueued[x]) = 1 /\ enqueued[x][1].target = NoTarget
       /\ enqueued[y] = enqueued[x]

\* C8: a valid frame whose target names a registered device (in any letter
\* case) is appended to that device's channel and to no other channel.
TargetedDelivery ==
    [][\A c \in Conns :
          (TargetStep(c) /\ \E e \in sessions : e.device_id = rtarget[c]) =>
             \A x \in Conns :
                IF \E e \in sessions : e.device_id = rtarget[c] /\ e.sender = x
                  THEN /\ enqueued'[x] = Append(enqueued[x], rframe[c])
                       /\ queue'[x] = Append(queue[x], rframe[c])
                  ELSE /\ enqueued'[x] = enqueued[x]
                       /\ queue'[x] = queue[x]]_vars

\* C8 witness: three devices registered and a targeted frame is in the target's
\* channel alone
TargetedWitness ==
    \E x \in Conns :
       /\ Cardinality({e.device_id : e \in sessions}) = 3
       /\ EntryOf(x) \in sessions
       /\ Len(enqueued[x]) = 1
       /\ enqueued[x][1].target # NoTarget
       /\ to_lowercase(enqueued[x][1].target) = device_id[x]
       /\ \A y \in Conns \ {x} : enqueued[y] = <<>>

\* C9: send_binary to a device id without entry returns DeviceNotConnected,
\* changes neither the registry nor any channel, and the rejected frame is in no
\* channel at any later time.
NoOfflineQueueing ==
    [][/\ \A d \in Devices :
             (ApiSendBinary(d) /\ ~\E e \in sessions : e.device_id = d) =>
                /\ ret'.value = "DeviceNotConnected"
                /\ UNCHANGED <<sessions, tx_live, rx_live, queue, enqueued>>
       /\ \A f \in not_connected' : \A x \in Conns :
             Count(enqueued'[x], f) = 0 /\ Count(queue'[x], f) = 0]_vars

\* C9 witness: a frame was rejected and its device id registered afterwards
NoOfflineQueueingWitness ==
    \E f \in not_connected : \E e \in sessions :
       /\ e.device_id = f.target
       /\ queue[e.sender] = <<>>

\* C10 as claimed: the error envelope is enqueued on the sender's own outbound
\* channel (the one its register call returned).
ErrorEnqueuedOnSenderChannel ==
    [][\A c \in Conns :
          ErrorStep(c) =>
             \E x \in Conns :
                /\ device_id[x] = device_id[c]
                /\ Len(enqueued'[x]) = Len(enqueued[x]) + 1
                /\ enqueued'[x][Len(enqueued'[x])].code = "device_not_connected"]_vars

\* C10 as amended: the error envelope (code device_not_connected,
\* original_message_id the offending id) is written on the sender connection's
\* transport if that is still open, and is put on no outbound channel.
ErrorWrittenOnSenderTransport ==
    [][\A c \in Conns :
          ErrorStep(c) =>
             /\ UNCHANGED <<queue, enqueued>>
             /\ \A x \in Conns \ {c} : out'[x] = out[x]
             /\ IF open[c]
                  THEN /\ Len(out'[c]) = Len(out[c]) + 1
                       /\ SubSeq(out'[c], 1, Len(out[c])) = out[c]
                       /\ LET f == out'[c][Len(out'[c])]
                          IN /\ f.type = "error"
                             /\ f.code = "device_not_connected"
                             /\ f.original_message_id = rframe[c].id
                             /\ f.target_device_id = rtarget[c]
                  ELSE out'[c] = out[c]]_vars

\* C10 witness: a sender has the error envelope for a rejected frame on its
\* transport and nothing in its channel
ErrorWitness ==
    \E c \in Conns : \E f \in not_connected :
       /\ Len(out[c]) = 1
       /\ out[c][1].code = "device_not_connected"
       /\ out[c][1].original_message_id = f.id
       /\ enqueued[c] = <<>>

\* the frame bytes the relay owes a recipient for the inbound message m
OwedBytes(m) ==
    IF m.ws = "binary" THEN m.bytes ELSE <<0, 0, 0, Len(m.bytes)>> \o m.bytes

\* C11: every frame put on an outbound channel, and every clipboard frame a
\* writer puts on a transport, has the bytes of the inbound binary frame it came
\* from, or for an inbound text the 4-byte big-endian length followed by the
\* bytes of the text.
ByteIdentity ==
    \A x \in Conns :
       /\ \A i \in DOMAIN enqueued[x] :
             \E o \in origin : o.id = enqueued[x][i].id
                               /\ enqueued[x][i].bytes = OwedBytes(o.message)
       /\ \A i \in DOMAIN out[x] :
             out[x][i].type = "clipboard" =>
                \E o \in origin : o.id = out[x][i].id
                                  /\ out[x][i].bytes = OwedBytes(o.message)

\* C11 witness: an inbound text has been forwarded and written on the
\* recipient's transport
ByteIdentityWitness ==
    \E x \in Conns : \E o \in origin :
       /\ o.message.ws = "text"
       /\ o.conn # x
       /\ Len(out[x]) = 1
       /\ out[x][1].id = o.id
       /\ out[x][1].bytes = <<0, 0, 0, 4>> \o o.message.bytes

\* the connection whose reader routed the envelope with this id
SenderOf(id) == (CHOOSE o \in origin : o.id = id).conn

\* the clipboard frames of a sequence of frames, in order
RECURSIVE ClipboardOnly(_)
ClipboardOnly(seq) ==
    IF seq = <<>> THEN <<>>
    ELSE IF Head(seq).type = "clipboard" THEN <<Head(seq)>> \o ClipboardOnly(Tail(seq))
    ELSE ClipboardOnly(Tail(seq))

\* C12: frames one sender connection routed to one recipient session are
\* emitted on the recipient's transport in the order the sender's reader routed
\* them, none overtaking or skipping an earlier one.
PerSenderOrder ==
    \A r \in Conns :
       /\ \A i, j \in DOMAIN out[r] :
             (/\ i < j
              /\ out[r][i].type = "clipboard" /\ out[r][j].type = "clipboard"
              /\ SenderOf(out[r][i].id) = SenderOf(out[r][j].id))
                => out[r][i].id < out[r][j].id
       /\ open[r] => enqueued[r] = ClipboardOnly(out[r]) \o queue[r]

\* C12 witness: a recipient's transport carries two frames of one sender
PerSenderOrderWitness ==
    \E r \in Conns : \E i, j \in DOMAIN out[r] :
       /\ i < j
       /\ out[r][i].type = "clipboard" /\ out[r][j].type = "clipboard"
       /\ SenderOf(out[r][i].id) = SenderOf(out[r][j].id)
       /\ SenderOf(out[r][i].id) # r

\* the clipboard messages with number id that the relay must drop: the text is
\* not an envelope, or the payload has no encryption block
DroppedClipboard(id) ==
    MessagesOf(BadTexts(id) \cup {EnvelopeText(1, id, t, 2) : t \in TargetIds \cup {NoTarget}}, {})

\* C13: reading a clipboard frame that is not valid JSON or whose payload fails
\* validation puts nothing on any outbound channel, writes no reply on the
\* sender's transport and leaves every registry entry (device id, sender, token,
\* last_seen) as it was.
ValidationDrop ==
    [][\A c \in Conns : \A msg \in DroppedClipboard(nmsg + 1) :
          ReaderRecv(c, msg) =>
             /\ UNCHANGED <<queue, enqueued, out>>
             /\ rpc'[c] = "recv"
             /\ UNCHANGED <<sessions, last_seen>>]_vars

\* ------------------------------------------------------------------ C14
\* v is a string that one of the two base64 engines decodes
Decodable(v) == IsStr(v) /\ (Base64Standard(v.s).ok \/ Base64NoPad(v.s).ok)
\* v is a string that decodes to exactly n bytes
DecodesTo(v, n) ==
    /\ IsStr(v)
    /\ \/ Base64Standard(v.s).ok /\ Len(Base64Standard(v.s).bytes) = n
       \/ Base64NoPad(v.s).ok /\ Len(Base64NoPad(v.s).bytes) = n
\* the payloads the contract accepts
Acceptable(p) ==
    /\ p.encryption = "object"
    /\ IsStr(p.nonce) /\ IsStr(p.tag)
    /\ \/ p.nonce.s = <<>> /\ p.tag.s = <<>>
       \/ DecodesTo(p.nonce, 12) /\ DecodesTo(p.tag, 16)
    /\ Decodable(IF p.ciphertext = JAbsent THEN p.data ELSE p.ciphertext)

\* C14: validate_encryption_block accepts a payload exactly when nonce and tag
\* are both strings, either both empty or decoding to 12 and 16 bytes, and the
\* ciphertext field (data when there is no ciphertext) is a base64-decodable
\* string; a payload with exactly one of nonce and tag empty is rejected.
ValidateContract ==
    ret.op = "validate_encryption_block" =>
        /\ (ret.value = "Ok") <=> Acceptable(arg)
        /\ (arg.encryption = "object" /\ IsStr(arg.nonce) /\ IsStr(arg.tag)
              /\ (arg.nonce.s = <<>>) # (arg.tag.s = <<>>)) => ret.value # "Ok"

\* a payload with a well-formed nonce and an empty tag has been rejected
ValidateWitness ==
    /\ ret.op = "validate_encryption_block"
    /\ arg.encryption = "object"
    /\ DecodesTo(arg.nonce, 12) /\ arg.tag = JString(<<>>)
    /\ Decodable(arg.ciphertext)
    /\ ret.value # "Ok"

\* ------------------------------------------------------------------ C15
\* the lower-case spelling of each id
LowerCaseOf == [x \in {"a", "A"} |-> "a"] @@ [x \in {"b", "B"} |-> "b"]
SameIgnoringCase(x, y) ==
    x \in DOMAIN LowerCaseOf /\ y \in DOMAIN LowerCaseOf /\ LowerCaseOf[x] = LowerCaseOf[y]

\* C15: a connection presenting an X-Device-Id in either letter case is
\* registered under the lower-case id, and a targeted frame is appended to the
\* channel of the device whose id equals the target up to letter case.
CaseInsensitiveIds ==
    [][/\ \A c \in SeqConns :
            (hpc[c] = "minted" /\ hpc'[c] = "registered") =>
               \E e \in sessions' : e.sender = c /\ e.device_id = LowerCaseOf[arg[c]]
       /\ \A c \in SeqConns :
            TargetStep(c) =>
               \A e \in sessions :
                  SameIgnoringCase(e.device_id, rframe[c].target) =>
                     /\ e.device_id = LowerCaseOf[arg[e.sender]]
                     /\ enqueued'[e.sender] = Append(enqueued[e.sender], rframe[c])]_vars

\* a device admitted as "A" is registered as "a" and holds a frame targeted at
\* "A"; a device admitted as "b" holds a frame targeted at "B"
CaseWitnessUpperHeader ==
    \E x \in SeqConns :
       /\ arg[x] = "A"
       /\ SessionEntry("a", x, session_token[x]) \in sessions
       /\ Len(enqueued[x]) = 1 /\ enqueued[x][1].target = "A"

\* ------------------------------------------------------------------ C16
ReaderLoop == {"recv", "route", "error", "respond"}

\* C16: however the reader loop ends (Close frame, read error, end of stream,
\* empty binary frame), the reader's next step, which is always possible, is its
\* one call unregister_with_token(device_id, own token); the reader makes no
\* call while in the loop and none after that one; the empty binary frame closes
\* the transport and reaches no channel.
ReaderTeardownOnce ==
    [][\A c \in Conns :
          /\ (rpc[c] \in ReaderLoop /\ rpc'[c] \notin ReaderLoop) =>
                rpc'[c] = "unreg" /\ rcalls[c] = 0
          /\ rpc[c] = "unreg" => ENABLED ReaderUnregister(c)
          /\ (rpc[c] = "unreg" /\ rpc'[c] # "unreg") =>
                /\ rpc'[c] = "done"
                /\ rcalls'[c] = 1
                /\ sessions' = sessions \ {EntryOf(c)}
          /\ rcalls'[c] # rcalls[c] => rpc[c] = "unreg"
          /\ rpc[c] = "done" => rpc'[c] = "done" /\ rcalls'[c] = 1
          /\ ReaderEmptyBinary(c) =>
                ~open'[c] /\ rpc'[c] = "unreg" /\ UNCHANGED <<queue, enqueued, out>>]_vars

\* a reader that left its loop on a Close frame has made its one call, which
\* removed its own entry
ReaderTeardownWitness ==
    \E c \in Conns :
       /\ rpc[c] = "done" /\ open[c]
       /\ rcalls[c] = 1 /\ rremoved[c] = "true"
       /\ EntryOf(c) \notin sessions

\* ------------------------------------------------------------------ C17
\* the writer takes a frame off its channel and the write fails
WriteFailure(c) == wpc[c] = "recv" /\ ~open[c] /\ Len(queue'[c]) < Len(queue[c])

\* C17: a failed write ends the writer loop: the frame is not written and not put
\* back, and from then on the writer takes no frame off the channel and nothing
\* is written on the transport; after either exit (write failure, channel closed)
\* the writer's next step, which is always possible, is its one call
\* unregister_with_token(device_id, own token), and it makes no other.
WriterStopsAndTearsDownOnce ==
    [][\A c \in Conns :
          /\ WriteFailure(c) =>
                wpc'[c] = "unreg" /\ out'[c] = out[c] /\ queue'[c] = Tail(queue[c])
          /\ wpc[c] \in {"unreg", "done"} => Len(queue'[c]) >= Len(queue[c])
          /\ (hpc[c] = "registered" /\ ~open[c]) => out'[c] = out[c]
          /\ (wpc[c] = "recv" /\ wpc'[c] # "recv") => wpc'[c] = "unreg" /\ wcalls[c] = 0
          /\ wpc[c] = "unreg" => ENABLED WriterUnregister(c)
          /\ (wpc[c] = "unreg" /\ wpc'[c] # "unreg") =>
                /\ wpc'[c] = "done"
                /\ wcalls'[c] = 1
                /\ sessions' = sessions \ {EntryOf(c)}
          /\ wcalls'[c] # wcalls[c] => wpc[c] = "unreg"
          /\ wpc[c] = "done" => wpc'[c] = "done" /\ wcalls'[c] = 1]_vars

\* a writer whose only frame was taken off the channel and never written has
\* made its one call
WriterTeardownWitness ==
    \E c \in Conns :
       /\ wpc[c] = "done" /\ wcalls[c] = 1
       /\ Len(enqueued[c]) = 1 /\ queue[c] = <<>> /\ out[c] = <<>>

\* ------------------------------------------------------------------ C18
\* the entry connection c registered is no longer in the registry
Removed(c) == hpc[c] = "registered" /\ EntryOf(c) \notin sessions
NoEntryUnder(S, d) == \A e \in S : e.device_id # d

\* C18: a completed removal leaves no entry under the device id and closes the
\* removed session's channel (its receiver gets None once the channel is empty);
\* from then on no frame is appended to that channel, and a send to the device
\* id returns DeviceNotConnected for as long as the id has no entry.
NoSendAfterRemove ==
    [][/\ \A d \in Devices :
             (ApiUnregister(d)
                \/ \E t \in 0..MaxConn : ApiUnregisterWithToken(d, t) /\ ret'.value = "true") =>
                /\ NoEntryUnder(sessions', d)
                /\ \A c \in Conns :
                      (hpc[c] = "registered" /\ device_id[c] = d) =>
                         EntryOf(c) \notin sessions' /\ ~tx_live'[c]
       /\ \A c \in Conns :
             Removed(c) =>
                /\ ~tx_live[c]
                /\ enqueued'[c] = enqueued[c]
                /\ Len(queue'[c]) <= Len(queue[c])
                /\ (ApiRecv(c) /\ queue[c] = <<>>) => ret'.value = "None"
                /\ (ApiSendBinary(device_id[c]) /\ NoEntryUnder(sessions, device_id[c])) =>
                      ret'.value = "DeviceNotConnected"]_vars

\* a device was registered and unregistered, a send to it then returned
\* DeviceNotConnected, and its old channel holds nothing
NoSendAfterRemoveWitness ==
    \E c \in Conns :
       /\ Removed(c) /\ NoEntryUnder(sessions, device_id[c])
       /\ ret = Call("send_binary", device_id[c], "DeviceNotConnected")
       /\ enqueued[c] = <<>> /\ ~tx_live[c]

\* ------------------------------------------------------------------ C19
ControlMessage(id, ws, t, k) ==
    IF ws = "binary" THEN Message("binary", encode_binary_frame(EnvelopeText(2, id, t, k)))
    ELSE Message("text", EnvelopeText(2, id, t, k))

\* C19: reading a control envelope, whatever its action and whether or not its
\* payload parses, appends nothing to any channel and never leads to routing:
\* the reader goes on to its next frame, or, for query_connected_peers, writes
\* the response on the sender's own transport; the envelope is acted on although
\* its payload has no encryption block (a well-formed register_key stores the
\* sender's key).
ControlNeverForwarded ==
    [][/\ nmsg' # nmsg =>
            \A c \in SeqConns, ws \in {"binary", "text"}, t \in ControlTargets,
               k \in DOMAIN ControlPayloads :
               ReaderRecv(c, ControlMessage(nmsg + 1, ws, t, k)) =>
                  /\ UNCHANGED <<queue, enqueued, out, origin, sessions>>
                  /\ rpc'[c] = (IF ControlPayloads[k].action = JString("query_connected_peers")
                                  THEN "respond" ELSE "recv")
                  /\ k = 1 => KeyEntry(device_id[c], Zeros(32)) \in device_keys'
       /\ \A c \in Conns :
            (rpc[c] = "respond" /\ rpc'[c] # "respond") =>
               /\ UNCHANGED <<queue, enqueued>>
               /\ rpc'[c] = "recv"
               /\ \A x \in Conns \ {c} : out'[x] = out[x]]_vars

\* with another device registered, a device has stored its key and had its
\* query_connected_peers answered on its own transport, and no channel has
\* received anything
ControlWitness ==
    \E c \in SeqConns :
       /\ Cardinality(sessions) = 2
       /\ KeyEntry(device_id[c], Zeros(32)) \in device_keys
       /\ Len(out[c]) = 1 /\ out[c][1].type = "control"
       /\ \A x \in Conns : enqueued[x] = <<>>

\* ------------------------------------------------------------------ C20
\* the payload's symmetric_key is a string that is the (padded) base64 of exactly
\* 32 bytes
KeyAcceptable(p) ==
    /\ IsStr(p.symmetric_key)
    /\ Base64Standard(p.symmetric_key.s).ok
    /\ Len(Base64Standard(p.symmetric_key.s).bytes) = 32

\* C20: reading a register_key control envelope stores the decoded key under
\* the sender's device id if symmetric_key is a string that decodes (standard
\* padded base64) to exactly 32 bytes, and otherwise (field missing or not a
\* string, text not decodable, unpadded text, 31 or 33 bytes, empty) leaves the
\* key registry as it was.
RegisterKeyContract ==
    [][nmsg' # nmsg =>
         \A c \in SeqConns, ws \in {"binary", "text"}, t \in ControlTargets,
            k \in {i \in DOMAIN ControlPayloads :
                      ControlPayloads[i].action = JString("register_key")} :
            ReaderRecv(c, ControlMessage(nmsg + 1, ws, t, k)) =>
               IF KeyAcceptable(ControlPayloads[k])
                 THEN device_keys' =
                        {x \in device_keys : x.device_id # device_id[c]}
                        \cup {[device_id |-> device_id[c], key |-> Zeros(32)]}
                 ELSE device_keys' = device_keys]_vars

\* of two registered devices, one has its 32-byte key in the registry and the
\* other has none
RegisterKeyWitness ==
    \E c \in SeqConns :
       /\ Cardinality(sessions) = 2 /\ nmsg = 2
       /\ device_keys = {[device_id |-> device_id[c], key |-> Zeros(32)]}
       /\ \A x \in Conns : out[x] = <<>>

\* ------------------------------------------------------------------ C21
\* C21 as claimed: every key held in the registry is exactly 32 bytes long.
EveryKeyIs32Bytes == \A x \in device_keys : Len(x.key) = 32

\* C21 as amended: the registry does not look at the length of a key.  store
\* holds the key it is given under the device id, replacing the key held before;
\* remove drops the device's key; get returns the key held and changes nothing;
\* the register_key handler is what refuses a key that is not 32 bytes long.
KeyStoreHoldsWhatIsStored ==
    [][\A d \in KeyDevices :
          /\ \A key \in KeyValues :
                StoreKey(d, key) =>
                   device_keys' = {x \in device_keys : x.device_id # d}
                                  \cup {[device_id |-> d, key |-> key]}
          /\ RemoveKey(d) => device_keys' = {x \in device_keys : x.device_id # d}
          /\ GetKey(d) =>
                /\ device_keys' = device_keys
                /\ \A x \in device_keys : x.device_id = d => ret'.value = SomeKey(x.key)
                /\ (\A x \in device_keys : x.device_id # d) => ret'.value = NoKey
          /\ \A k \in KeyPayloads :
                HandleKeyControl(d, k) =>
                   \A x \in device_keys' \ device_keys : x.device_id = d /\ Len(x.key) = 32]_vars

\* a 3-byte key was stored directly and get has returned it
KeyStoreWitness ==
    /\ ret.op = "get"
    /\ ret.value = SomeKey(Zeros(3))
    /\ [device_id |-> ret.device_id, key |-> Zeros(3)] \in device_keys

\* ------------------------------------------------------------------ C22
IdsOf(infos) == {i.device_id : i \in infos}
Elements(list) == {list[j] : j \in DOMAIN list}

\* C22: reading a query_connected_peers envelope that supplies device_ids
\* prepares a control response that carries the envelope's id and lists exactly
\* the devices registered at that moment whose id is in device_ids; the response
\* is then written, as prepared, on the sender's own transport.
QueryAnswersRequestedPeers ==
    [][/\ nmsg' # nmsg =>
            \A c \in Conns, ws \in {"binary", "text"}, i \in DOMAIN PeerLists :
               ReaderRecv(c, ControlMessage(nmsg + 1, ws, NoTarget, Len(ControlPayloads) + i)) =>
                  /\ rpc'[c] = "respond"
                  /\ rframe'[c].type = "control"
                  /\ rframe'[c].action = "query_connected_peers"
                  /\ rframe'[c].original_message_id = nmsg + 1
                  /\ IdsOf(rframe'[c].connected_devices)
                        = {e.device_id : e \in sessions} \cap Elements(PeerLists[i])
                  /\ sessions' = sessions
       /\ \A c \in Conns :
            (rpc[c] = "respond" /\ rpc'[c] # "respond") =>
               out'[c] = IF open[c] THEN Append(out[c], rframe[c]) ELSE out[c]]_vars

\* with a, b and c registered, a query for a, b and ghost was answered with a
\* and b
QueryWitness ==
    \E c \in Conns :
       /\ {e.device_id : e \in sessions} = {"a", "b", "c"}
       /\ Len(out[c]) = 1
       /\ out[c][1].type = "control" /\ out[c][1].original_message_id = 1
       /\ IdsOf(out[c][1].connected_devices) = {"a", "b"}

\* ------------------------------------------------------------------ C23
\* C23: for the same registry and the same non-empty list of requested ids, in
\* any letter case, GET /peers returns the devices that the control-plane filter
\* of query_connected_peers returns.
PeersSameAsControl ==
    [][\A i \in DOMAIN PeerLists :
          (PeerLists[i] # <<>> /\ PeersRequest(PeerLists[i])) =>
             IdsOf(ret'.value.connected_devices)
               = IdsOf(FilterPeers(GetConnectedDevicesInfo(sessions, last_seen), PeerLists[i]))]_vars
\* C24: with RELAY_WS_AUTH_TOKEN configured, a well-formed upgrade request that
\* carries both device headers but whose X-Auth-Token is missing or is not
\* base64(HMAC-SHA256(secret, device_id)) is answered 401: it is never upgraded
\* and never reaches register.
TokenMatches(c) ==
    arg.req[c].auth_token = compute_ws_auth_token(arg.secret, arg.req[c].device_id)
AuthTokenRequired ==
    \A c \in SeqConns :
        (/\ arg.secret # NoHeader
         /\ HeadersPresent(arg.req[c]) /\ arg.req[c].upgrade
         /\ ~TokenMatches(c))
            => hpc[c] \in {"new", "unauthorized"}

\* C25: a request missing X-Device-Id or X-Device-Platform is answered 400 and
\* leaves the session registry as it was; a connection reaches register only
\* with both headers present and the upgrade done.
MissingDeviceHeader(c) ==
    arg.req[c].device_id = NoHeader \/ arg.req[c].platform = NoHeader
Answered(c) == hpc[c] = "new" /\ hpc'[c] # "new"
MissingHeaderIs400 ==
    [][\A c \in SeqConns :
          /\ (Answered(c) /\ MissingDeviceHeader(c))
                => (hpc'[c] = "bad_request" /\ sessions' = sessions /\ next_token' = next_token)
          /\ hpc'[c] \in {"minted", "registered"}
                => (~MissingDeviceHeader(c) /\ arg.req[c].upgrade)]_vars
MissingHeaderWitness ==
    \E c, d \in SeqConns :
        /\ hpc[c] = "registered" /\ sessions # {}
        /\ hpc[d] = "bad_request" /\ arg.req[d].platform = NoHeader
                                  /\ arg.req[d].device_id # NoHeader


\* C26: a Device Key Entry's lifetime is independent of the session: no step of
\* register or of an unregister_with_token call (takeover included) changes the
\* key registry, and no step that changes the key registry changes the session
\* registry.
UnregisterCall(c) == rcalls'[c] # rcalls[c] \/ wcalls'[c] # wcalls[c]
RegisterCall(c) == hpc'[c] # hpc[c]
KeysIndependentOfSessions ==
    [][/\ \A c \in Conns : (RegisterCall(c) \/ UnregisterCall(c)) => device_keys' = device_keys
       /\ sessions' # sessions => device_keys' = device_keys
       /\ device_keys' # device_keys
             => (sessions' = sessions /\ next_token' = next_token)]_vars
\* device a's key outlives its session: the entry was replaced by a takeover,
\* then removed, and the key is still held
KeysOutliveSessionWitness ==
    /\ KeyStoreIsRegistered(device_keys, "a")
    /\ sessions = {}
    /\ \E c, d \in Conns :
          /\ c # d /\ device_id[c] = "a" /\ device_id[d] = "a"
          /\ rremoved[d] = "true" /\ (rremoved[c] = "false" \/ wremoved[c] = "false")


\* C27: codec round trip: the frame of a text s is the 4-byte big-endian byte
\* count of s followed by the bytes of s, and the strict decoder applied to it
\* returns s.
CodecRoundTrip ==
    /\ ret.op = "encode_binary_frame" =>
          /\ Len(ret.value) = 4 + Len(arg)
          /\ ret.value[1] * 16777216 + ret.value[2] * 65536
               + ret.value[3] * 256 + ret.value[4] = Len(arg)
          /\ \A i \in 1..4 : ret.value[i] \in 0..255
          /\ \A i \in DOMAIN arg : ret.value[4 + i] = arg[i]
    /\ ret.op = "decode_binary_frame" => (ret.value.ok /\ ret.value.json = arg)
\* a text of 257 bytes that begins with a two-byte character came back
CodecWitness ==
    /\ ret.op = "decode_binary_frame" /\ ret.value.ok
    /\ Len(arg) = 257 /\ arg[1] = 195 /\ ret.value.json[257] = 65


\* C28: a pairing code is claimed at most once: once a claim request has
\* succeeded no other one succeeds, in any interleaving, and the stored
\* responder stays as it is.
Succeeded(r) == claim[r].result = "Ok"
ClaimedAtMostOnce ==
    [][(\E r \in Responders : Succeeded(r)) =>
          /\ redis'.responder_device_id = redis.responder_device_id
          /\ \A r \in Responders : claim'[r].result = "Ok" => Succeeded(r)]_vars


\* C29: under fairness, once the registry holds no entry for a session's
\* channel (the entry was removed or replaced) and its writer task has not yet
\* finished, the writer eventually finishes: its unregister_with_token call has
\* removed nothing, its receiver is dropped, and unless the transport failed
\* its channel is drained.
EntryHeld(c) == \E e \in sessions : e.sender = c
WriterEventuallyExits ==
    \A c \in Conns :
        (hpc[c] = "registered" /\ ~EntryHeld(c) /\ wpc[c] # "done")
           ~> (/\ wpc[c] = "done" /\ wremoved[c] = "false" /\ ~rx_live[c]
               /\ open[c] => queue[c] = <<>>)
\* a writer that finished after its entry was replaced by a takeover, having
\* written a frame that was queued for it
WriterExitWitness ==
    \E c, d \in Conns :
        /\ c # d /\ EntryHeld(d) /\ device_id[c] = device_id[d]
        /\ wpc[c] = "done" /\ wremoved[c] = "false" /\ wcalls[c] = 1
        /\ out[c] # <<>> /\ open[c]


\* C30: last_seen changes only on a valid accepted frame: reading a clipboard
\* envelope whose payload fails validate_encryption_block, which is dropped,
\* leaves last_seen of the sender's session as it was.
FailsValidation(id) ==
    MessagesOf({EnvelopeText(1, id, t, 2) : t \in TargetIds \cup {NoTarget}}, {})
LastSeenOnlyOnAccept ==
    [][\A c \in Conns : \A msg \in FailsValidation(nmsg + 1) :
          ReaderRecv(c, msg) => last_seen'[c] = last_seen[c]]_vars

\* ------------------------------------------------------------------ C31
\* C31: in a broadcast, the refused enqueue to a recipient whose receiver is
\* dropped is ignored: every other entry that is not the sender's gets the frame
\* appended once, the dead channel gets nothing, the call returns (), and the
\* registry is unchanged.
BroadcastIgnoresDeadRecipient ==
    [][\A d \in Devices :
          ApiBroadcastExceptBinary(d) =>
             LET frame == ClipboardFrame(nmsg + 1, NoTarget, TRUE)
             IN /\ \A e \in sessions :
                      IF e.device_id # d /\ rx_live[e.sender]
                        THEN /\ queue'[e.sender] = Append(queue[e.sender], frame)
                             /\ Count(enqueued'[e.sender], frame) = 1
                        ELSE /\ queue'[e.sender] = queue[e.sender]
                             /\ Count(enqueued'[e.sender], frame) = 0
                /\ ret'.value = "()"
                /\ UNCHANGED <<sessions, tx_live, rx_live>>]_vars
\* a broadcast was made while one recipient's receiver was dropped, and
\* another recipient holds the frame
BroadcastDeadRecipientWitness ==
    /\ ret.op = "broadcast_except_binary"
    /\ \E e1, e2 \in sessions :
          /\ e1.device_id # ret.device_id /\ e2.device_id # ret.device_id
          /\ ~rx_live[e1.sender] /\ enqueued[e1.sender] = <<>>
          /\ rx_live[e2.sender] /\ Len(queue[e2.sender]) = 1

\* ------------------------------------------------------------------ C32
\* C32: send_binary to a device id whose entry is present but whose receiver is
\* dropped returns SendError, appends the frame to no channel and leaves the
\* registry, the stale entry included, as it was.
StaleEntry(d) == \E e \in sessions : e.device_id = d /\ ~rx_live[e.sender]
SendToDeadReceiver ==
    [][\A d \in Devices :
          (ApiSendBinary(d) /\ StaleEntry(d)) =>
             /\ ret'.value = "SendError"
             /\ UNCHANGED <<queue, enqueued, not_connected>>
             /\ sessions' = sessions /\ StaleEntry(d)']_vars
SendToDeadReceiverWitness ==
    \E d \in Devices :
        /\ ret = Call("send_binary", d, "SendError")
        /\ StaleEntry(d)
        /\ \A c \in Conns : enqueued[c] = <<>>

\* ------------------------------------------------------------------ C33
\* C33: a control payload handled for sender s, whatever device its _device_id
\* field names, leaves the Device Key Entry of every other device as it was.
KeysOfOthers(K, s) == {x \in K : x.device_id # s}
KeyOpsOnSenderOnly ==
    [][\A s \in KeyDevices :
          (\/ \E k \in KeyPayloads : HandleKeyControl(s, k)
           \/ \E k \in NamingPayloads, v \in NamedDevices : HandleNamingControl(s, k, v))
             => KeysOfOthers(device_keys', s) = KeysOfOthers(device_keys, s)]_vars
\* device a has sent deregister_key, then register_key, naming device b, whose
\* key is still the 3-byte key stored for it
KeyOpsWitness ==
    /\ ret = Call("handle_control_message", "a", NoKey)
    /\ arg = [payload |-> 1, device_id |-> JString(<<"b">>)]
    /\ [device_id |-> "b", key |-> Zeros(3)] \in device_keys
    /\ [device_id |-> "a", key |-> Zeros(32)] \in device_keys

\* ------------------------------------------------------------------ C34
\* C34: of the reader's and the writer's unregister_with_token of one
\* connection at most one returns true, and once the entry carrying the
\* connection's token has left the registry no entry carries that token again.
TokenGone(S, c) == \A e \in S : e.token # session_token[c]
OneTeardownRemoves ==
    [][\A c \in Conns :
          /\ ~(rremoved'[c] = "true" /\ wremoved'[c] = "true")
          /\ (hpc[c] = "registered" /\ TokenGone(sessions, c)) => TokenGone(sessions', c)]_vars
\* both teardowns of c have run, exactly one removed the entry, and the device
\* has registered again since
OneTeardownWitness ==
    \E c \in Conns :
        /\ rpc[c] = "done" /\ wpc[c] = "done"
        /\ {rremoved[c], wremoved[c]} = {"true", "false"}
        /\ \E e \in sessions : e.device_id = device_id[c] /\ e.token # session_token[c]

\* ------------------------------------------------------------------ C35
\* C35: two register calls, for the same device id or different ones, finished
\* or still waiting for the write lock, never hold the same token.
Minted(c) == hpc[c] \in {"minted", "registered"}
TokensUnique ==
    \A c1, c2 \in Conns :
        (c1 # c2 /\ Minted(c1) /\ Minted(c2)) => session_token[c1] # session_token[c2]
\* two register calls for one device id are in flight at once, a third call
\* for another device id has returned
TokensUniqueWitness ==
    \E c1, c2, c3 \in Conns :
        /\ c1 # c2 /\ hpc[c1] = "minted" /\ hpc[c2] = "minted"
        /\ device_id[c1] = device_id[c2]
        /\ hpc[c3] = "registered" /\ device_id[c3] # device_id[c1]

\* ------------------------------------------------------------------ C36
\* C36: while the target's writer has left its loop on a failed write and its
\* entry is still registered, send_binary appends the frame to the target's
\* channel and returns Ok, no DeviceNotConnected is raised, and a frame left in
\* the channel of a writer that has left its loop stays there and is on no
\* transport.
InWindow(d) ==
    \E e \in sessions : e.device_id = d /\ wpc[e.sender] = "unreg" /\ ~open[e.sender]
SendInWindow(c) == ReaderSendTarget(c) /\ InWindow(rtarget[c])
Stranded ==
    \A x \in Conns :
        wpc[x] \in {"unreg", "done"} =>
            \A i \in DOMAIN queue[x] : \A y \in Conns : Count(out[y], queue[x][i]) = 0
OkMeansEnqueued ==
    [][/\ \A c \in SeqConns :
             SendInWindow(c) =>
                LET e == Get(sessions, rtarget[c])
                IN /\ queue' = [queue EXCEPT ![e.sender] = Append(queue[e.sender], rframe[c])]
                   /\ rpc'[c] = "recv"
                   /\ not_connected' = not_connected
                   /\ out' = out
       /\ \A x \in SeqConns :
             wpc[x] \in {"unreg", "done"} =>
                /\ wpc'[x] \in {"unreg", "done"}
                /\ Len(queue'[x]) >= Len(queue[x])
                /\ SubSeq(queue'[x], 1, Len(queue[x])) = queue[x]
       /\ Stranded']_vars
\* a reader holds a frame for a device whose writer has failed and not yet torn
\* down, and its send_binary is about to answer Ok
OkMeansEnqueuedWitness ==
    \E c \in SeqConns :
        /\ rpc[c] = "route" /\ InWindow(rtarget[c])
        /\ ENABLED (ReaderSendTarget(c) /\ rpc'[c] = "recv" /\ not_connected' = {})

\* ------------------------------------------------------------------ C37
\* C37: a register leaves every channel's content as it was and the new
\* session's channel empty; no frame is ever accepted by the channels of two
\* sessions of one device id; and when a writer observes the close of its
\* channel it has written every frame the channel ever accepted on its own
\* transport.
SameDevice(c1, c2) ==
    c1 # c2 /\ hpc[c1] = "registered" /\ hpc[c2] = "registered" /\ device_id[c1] = device_id[c2]
QueuedFramesStayWithOldSession ==
    [][/\ \A c \in Conns :
             Register(c) => queue' = queue /\ enqueued' = enqueued /\ queue[c] = <<>>
       /\ \A c \in Conns :
             WriterChannelClosed(c) =>
                \A i \in DOMAIN enqueued[c] : Count(out[c], enqueued[c][i]) = 1
       /\ \A c1, c2 \in Conns :
             SameDevice(c1, c2)' =>
                \A i \in DOMAIN enqueued'[c1] : Count(enqueued'[c2], enqueued'[c1][i]) = 0]_vars
\* the old session's writer has written the frame that was queued for it and
\* then observed the close of its channel; the session that took the device id
\* over has received nothing
QueuedFramesWitness ==
    \E c1, c2 \in Conns :
        /\ SameDevice(c1, c2) /\ EntryOf(c2) \in sessions
        /\ enqueued[c1] # <<>> /\ out[c1] = enqueued[c1]
        /\ wpc[c1] = "unreg" /\ open[c1]
        /\ enqueued[c2] = <<>>

\* ------------------------------------------------------------------ C38
\* C38: a register that takes a device id over leaves the old connection's
\* reader and transport as they were; the superseded reader still reads a valid
\* frame into routing, and its broadcast is accepted by the channel of every
\* entry under another device id and by no channel under its own.
TakenOverBy(x, c) == c # x /\ hpc[x] = "registered" /\ device_id[x] = device_id[c]
SupersededKeepsRouting ==
    [][\A x \in Conns :
          /\ \A c \in Conns :
                (Register(c) /\ TakenOverBy(x, c)) =>
                   rpc'[x] = rpc[x] /\ open'[x] = open[x] /\ rx_live'[x] = rx_live[x]
          /\ (Superseded(x) /\ rpc[x] = "recv" /\ rpc'[x] = "route") =>
                \E o \in origin' \ origin : o.conn = x /\ rframe'[x].id = o.id
          /\ (Superseded(x) /\ ReaderBroadcast(x)) =>
                \A e \in sessions :
                   enqueued'[e.sender] =
                      IF e.device_id # device_id[x] /\ rx_live[e.sender]
                        THEN Append(enqueued[e.sender], rframe[x])
                        ELSE enqueued[e.sender]]_vars
\* x, superseded by y before it read its frame (the frame refreshed y's
\* last_seen, not x's), has broadcast it: device z received it, y did not
SupersededWitness ==
    \E x, y, z \in Conns :
        /\ Superseded(x) /\ open[x] /\ rpc[x] = "recv"
        /\ EntryOf(y) \in sessions /\ device_id[y] = device_id[x] /\ y # x
        /\ EntryOf(z) \in sessions /\ device_id[z] # device_id[x]
        /\ \E o \in origin : o.conn = x /\ enqueued[z] # <<>> /\ enqueued[z][1].id = o.id
        /\ enqueued[y] = <<>>
        /\ last_seen[x] = 0 /\ last_seen[y] = 1

\* ------------------------------------------------------------------ C39
\* C39: the connected_devices list of a device_not_connected error envelope
\* written on a transport never contains the envelope's target_device_id.
ErrorListExcludesTarget ==
    \A c \in Conns : \A i \in DOMAIN out[c] :
        out[c][i].code = "device_not_connected" =>
            out[c][i].target_device_id \notin out[c][i].connected_devices

\* ------------------------------------------------------------------ C40
\* C40: a valid clipboard message whose target field holds a number, null, an
\* object or an array is routed with no target: the channel of every entry
\* under another device id accepts its frame, no other channel does and nothing
\* is rejected; send_binary is called only for a frame whose target is a string.
TargetCode(f) == f.bytes[7]
NonStringTargetMessages(id) == MessagesOf({<<1, id, k, 1>> : k \in NonStringCodes}, {})
NonStringTargetIsBroadcast ==
    [][\A c \in Conns :
          /\ \A msg \in NonStringTargetMessages(nmsg + 1) :
                ReaderRecv(c, msg) => rpc'[c] = "route" /\ rtarget'[c] = NoTarget
          /\ (rpc[c] = "route" /\ TargetCode(rframe[c]) \in NonStringCodes /\ rpc'[c] # rpc[c]) =>
                /\ \A e \in sessions :
                      enqueued'[e.sender] =
                         IF e.device_id # device_id[c] /\ rx_live[e.sender]
                           THEN Append(enqueued[e.sender], rframe[c])
                           ELSE enqueued[e.sender]
                /\ not_connected' = not_connected
                /\ rpc'[c] = "recv"
          /\ ReaderSendTarget(c) => TargetCode(rframe[c]) \in DOMAIN TargetStrings]_vars
\* device a has sent a frame whose target is null: the two other devices have
\* received it, a itself has not, and nothing was rejected
NonStringTargetWitness ==
    \E x, y, z \in Conns :
        /\ x # y /\ y # z /\ x # z
        /\ EntryOf(x) \in sessions /\ EntryOf(y) \in sessions /\ EntryOf(z) \in sessions
        /\ \E o \in origin : o.conn = x
        /\ Len(enqueued[y]) = 1 /\ TargetField(TargetCode(enqueued[y][1])).text = "null"
        /\ enqueued[z] = enqueued[y]
        /\ enqueued[x] = <<>> /\ not_connected = {} /\ rpc[x] = "recv"

====
